---- MODULE Spec2Model ----
(***************************************************************************)
(* Model of the Kartex logging server core:                                *)
(*   - db/batcher.rs         LogBatcher (bounded mpsc queue + processor)    *)
(*   - realtime/websocket.rs WsBroadcaster (tokio broadcast ring)           *)
(*   - realtime/metrics.rs   MetricsTracker (per-second bucket deque)       *)
(*   - realtime/alerts.rs    AlertManager (rule evaluation with cooldown)   *)
(* Each subsystem has its own specification; the variables of the other    *)
(* subsystems stay at their initial values.                                *)
(***************************************************************************)
EXTENDS Integers, Sequences, FiniteSets, TLC

\* ------------------------------------------------------------------ bounds
\* largest max_batch_size drawn for BatchConfig
MaxBatch == 2
\* largest channel_buffer_size drawn for BatchConfig
MaxBuffer == 2
\* number of enqueue calls (try_add / add) made in a run
MaxEnq == 4
\* number of live LogBatcher handles (the original plus clones)
MaxHandles == 2
\* number of record_log / record_log_by_level calls made in a run
MaxRecords == 3
\* number of times the wall clock is advanced in a run
MaxClockSteps == 3
\* largest capacity drawn for WsBroadcaster::new
MaxCapacity == 3
\* number of broadcast_* calls made in a run
MaxPublish == 5
\* number of broadcast_* calls of the slow-subscriber scenario
SlowPublishes == 2000
\* number of recv calls the slow subscriber makes afterwards
SlowRecvs == 3
\* number of times the wall clock is advanced in a run of the alert checker
MaxAlertSteps == 2
\* documents written to the spans collection in a run
MaxSpans == 2
\* documents written to the logs collection in a run of the trace store
MaxTraceLogs == 2
\* the most bytes one read of a TCP stream returns
MaxChunk == 3
\* the most characters between the < and the > of a syslog PRI
MaxPriLen == 3
\* record_span calls in a run
MaxSpanCalls == 2
\* clock advances while producer tasks record concurrently
MaxTaskClockSteps == 2
\* datagrams the UDP server receives in a run
MaxDatagrams == 2

VARIABLES
    \* ---- LogBatcher (db/batcher.rs)
    max_batch_size,       \* BatchConfig.max_batch_size
    channel_buffer_size,  \* BatchConfig.channel_buffer_size
    queue,                \* records in the mpsc channel, oldest first
    handles,              \* live LogBatcher handles (mpsc senders)
    batch,                \* the processor's pending Vec<LogEntry>
    pc,                   \* batch_processor: "running" | "done"
    inserted,             \* history: every call of insert_logs, [logs, ok]
    store,                \* records the collection holds
    accepted,             \* history: records whose enqueue returned Ok
    calls,                \* number of enqueue calls so far (record ids)
    lastAdd,              \* history: the last enqueue call and its result
    lastProc,             \* history: what the last processor step did
    \* ---- MetricsTracker (realtime/metrics.rs)
    clock,                \* Utc::now().timestamp(): the wall-clock second
    advances,             \* how many times the clock has been advanced
    buckets,              \* VecDeque<MetricsBucket>, front first
    total_logs,           \* AtomicU64 total_logs
    total_errors,         \* AtomicU64 total_errors
    recorded,             \* history: [sec, level] of every record call
    snapshot,             \* the RealtimeMetrics the last get_metrics returned
    span_calls,           \* history: the status code of every record_span call
    recorders,            \* per producer task: its position in record_log_by_level,
                          \* the `now` it read and its level
    \* ---- WsBroadcaster (realtime/websocket.rs) and its WebSocket handlers
    capacity,             \* the capacity given to WsBroadcaster::new
    buffer,               \* the broadcast ring: slot index -> [pos, rem, val]
    tail_pos,             \* position the next sent value gets
    rx_cnt,               \* number of live receivers
    subs,                 \* per handler: [state, next (cursor), start]
    published,            \* number of broadcast_* calls so far (message ids)
    posLog,               \* history: message id stored at each position
    frames,               \* history: per handler, the frames put on its socket
    \* ---- AlertManager (realtime/alerts.rs)
    cooldown_secs,        \* AlertManager.cooldown_secs
    rules,                \* the alerts collection: rule id -> AlertRule
    last_triggers,        \* the in-memory map alert id -> time of last trigger
    dispatched,           \* history: every AlertNotification handed to execute_action
    lastCheck,            \* history: the last check_alerts call and its result
    checker,              \* alert_checker_task: "idle" between two ticks, "stuck" in
                          \* a check_alerts call that never returns
    \* ---- SpanRepository (otlp/repository.rs)
    spans_collection,     \* the documents of the spans collection, oldest first
    logs_collection,      \* the documents of the logs collection, oldest first
    lastTrace,            \* the last get_trace_detail call and what it returned
    \* ---- syslog TCP connections (syslog/tcp_server.rs)
    conns,                \* per connection: handler position, bytes not yet
                          \* read, framing, first byte, octet buffer
    processed,            \* history: every process_message call
    \* ---- UdpServer (udp/mod.rs)
    secret,               \* AuthValidator.secret
    served,               \* history: every datagram recv_from returned, [packet, res]
    tasks,                \* the tasks run spawned, one per accepted datagram
    udp_store,            \* datagrams whose entry insert_log wrote to the collection
    \* ---- conversions of one input (db/models.rs, otlp/converter.rs, syslog/parser.rs)
    call                  \* [fn, input, output]: a function, its input, its result

batVars == << max_batch_size, channel_buffer_size, queue, handles, batch, pc,
              inserted, store, accepted, calls, lastAdd, lastProc >>

metVars == << clock, advances, buckets, total_logs, total_errors, recorded, snapshot,
             span_calls, recorders >>

bcVars == << capacity, buffer, tail_pos, rx_cnt, subs, published, posLog,
             frames >>

alVars == << cooldown_secs, rules, last_triggers, dispatched, lastCheck, checker >>

trVars == << spans_collection, logs_collection, lastTrace >>

sysVars == << conns, processed >>

udpVars == << secret, served, tasks, udp_store >>

callVars == << call >>

vars == << batVars, metVars, bcVars, alVars, trVars, sysVars, udpVars, callVars >>

\* what each subsystem leaves alone
notBatVars == << metVars, bcVars, alVars, trVars, sysVars, udpVars, callVars >>
notMetVars == << batVars, bcVars, alVars, trVars, sysVars, udpVars, callVars >>
notBcVars == << batVars, metVars, alVars, trVars, sysVars, udpVars, callVars >>
\* check_alerts reads the clock and the metrics tracker
notAlVars == << batVars, bcVars, trVars, sysVars, udpVars, callVars >>
notTrVars == << batVars, metVars, bcVars, alVars, sysVars, udpVars, callVars >>
\* process_message records metrics, broadcasts and enqueues
notSysVars == << alVars, trVars, udpVars, callVars >>
\* a spawned task of the UDP server records metrics and broadcasts
notUdpVars == << batVars, alVars, trVars, sysVars, callVars >>
notCallVars == << batVars, metVars, bcVars, alVars, trVars, sysVars, udpVars >>

\* ------------------------------------------------------------ helpers
RECURSIVE Concat(_)
Concat(ss) == IF ss = << >> THEN << >> ELSE Head(ss) \o Concat(Tail(ss))

Range(s) == { s[i] : i \in DOMAIN s }

NoDup(s) == \A i, j \in DOMAIN s : i # j => s[i] # s[j]

Increasing(s) == \A i, j \in DOMAIN s : i < j => s[i] < s[j]

\* =========================================================================
\* LogBatcher
\* =========================================================================
BatInit ==
    /\ max_batch_size \in 1..MaxBatch
    /\ channel_buffer_size \in 1..MaxBuffer
    /\ queue = << >>
    /\ handles = 1
    /\ batch = << >>
    /\ pc = "running"
    /\ inserted = << >>
    /\ store = << >>
    /\ accepted = << >>
    /\ calls = 0
    /\ lastAdd = [op |-> "none", id |-> 0, res |-> "none"]
    /\ lastProc = "none"

\* The receiver half is dropped only when batch_processor returns.
RxClosed == pc = "done"

\* off-by-one in the capacity test of try_send
TrySend_OffByOne(q) ==
    IF RxClosed THEN "Closed"
    ELSE IF Len(q) > channel_buffer_size THEN "Full"
    ELSE "Ok"

\* mpsc::Sender::try_send: Closed when the receiver is gone, Full when no
\* permit is free, otherwise the value is pushed.
TrySend(q) ==
    IF RxClosed THEN "Closed"
    ELSE IF Len(q) >= channel_buffer_size THEN "Full"
    ELSE "Ok"

\* LogBatcher::try_add
TryAddRecord ==
    /\ handles > 0
    /\ LET id == calls + 1
           res == TrySend(queue)
       IN /\ calls' = id
          /\ lastAdd' = [op |-> "try_add", id |-> id, res |-> res]
          /\ IF res = "Ok"
                THEN /\ queue' = Append(queue, id)
                     /\ accepted' = Append(accepted, id)
                ELSE UNCHANGED << queue, accepted >>
    /\ UNCHANGED << max_batch_size, channel_buffer_size, handles, batch, pc,
                    inserted, store, lastProc >>

\* a try_add call of some producer
TryAdd ==
    /\ UNCHANGED notBatVars
    /\ calls < MaxEnq
    /\ TryAddRecord

\* LogBatcher::add: sender.send(log).await completes once a permit is free;
\* until then the caller stays suspended (the action is not enabled).
Add ==
    /\ UNCHANGED notBatVars
    /\ handles > 0
    /\ calls < MaxEnq
    /\ ~RxClosed
    /\ Len(queue) < channel_buffer_size
    /\ LET id == calls + 1
       IN /\ calls' = id
          /\ lastAdd' = [op |-> "add", id |-> id, res |-> "Ok"]
          /\ queue' = Append(queue, id)
          /\ accepted' = Append(accepted, id)
    /\ UNCHANGED << max_batch_size, channel_buffer_size, handles, batch, pc,
                    inserted, store, lastProc >>

\* impl Clone for LogBatcher
CloneHandle ==
    /\ UNCHANGED notBatVars
    /\ handles > 0
    /\ handles < MaxHandles
    /\ handles' = handles + 1
    /\ UNCHANGED << max_batch_size, channel_buffer_size, queue, batch, pc,
                    inserted, store, accepted, calls, lastAdd, lastProc >>

\* a LogBatcher handle goes out of scope
DropHandle ==
    /\ UNCHANGED notBatVars
    /\ handles > 0
    /\ handles' = handles - 1
    /\ UNCHANGED << max_batch_size, channel_buffer_size, queue, batch, pc,
                    inserted, store, accepted, calls, lastAdd, lastProc >>

\* LogRepository::insert_logs as seen by the collection: on Ok every document
\* is stored; on Err insert_many may have stored a prefix (k documents) before
\* the error, k = 0 when the conversion or the first write failed.
InsertLogs(logs, ok, k) ==
    IF ok THEN store \o logs ELSE store \o SubSeq(logs, 1, k)

\* flush_batch that keeps a failed batch in the buffer for a retry
FlushBatch_RetryOnErr(b, ok, k) ==
    /\ batch' = IF ok THEN << >> ELSE b
    /\ inserted' = Append(inserted, [logs |-> b, ok |-> ok])
    /\ store' = InsertLogs(b, ok, k)

\* LogBatcher::flush_batch applied to buffer b: the buffer is drained and
\* handed to insert_logs whatever the outcome.
FlushBatch(b, ok, k) ==
    /\ batch' = << >>
    /\ inserted' = Append(inserted, [logs |-> b, ok |-> ok])
    /\ store' = InsertLogs(b, ok, k)

\* recv branch that flushes a full buffer instead of pushing the new record
ProcRecv_DropWhenFull ==
    /\ UNCHANGED notBatVars
    /\ pc = "running"
    /\ queue # << >>
    /\ queue' = Tail(queue)
    /\ IF Len(batch) + 1 >= max_batch_size /\ batch # << >>
          THEN /\ FlushBatch(batch, TRUE, 0)
               /\ lastProc' = "recv_flush_ok"
          ELSE /\ batch' = Append(batch, Head(queue))
               /\ lastProc' = "recv"
               /\ UNCHANGED << inserted, store >>
    /\ UNCHANGED << max_batch_size, channel_buffer_size, handles, pc,
                    accepted, calls, lastAdd >>

\* select! branch `receiver.recv()` yielding Some(log)
ProcRecv ==
    /\ UNCHANGED notBatVars
    /\ pc = "running"
    /\ queue # << >>
    /\ queue' = Tail(queue)
    /\ LET b == Append(batch, Head(queue))
       IN IF Len(b) >= max_batch_size
             THEN \E ok \in BOOLEAN : \E k \in 0..(Len(b) - 1) :
                    /\ (ok => k = 0)
                    /\ FlushBatch(b, ok, k)
                    /\ lastProc' = IF ok THEN "recv_flush_ok" ELSE "recv_flush_err"
             ELSE /\ batch' = b
                  /\ lastProc' = "recv"
                  /\ UNCHANGED << inserted, store >>
    /\ UNCHANGED << max_batch_size, channel_buffer_size, handles, pc,
                    accepted, calls, lastAdd >>

\* closed branch that exits without flushing the remainder
ProcClosed_NoFlush ==
    /\ UNCHANGED notBatVars
    /\ pc = "running"
    /\ queue = << >>
    /\ handles = 0
    /\ pc' = "done"
    /\ lastProc' = "close"
    /\ UNCHANGED << batch, inserted, store >>
    /\ UNCHANGED << max_batch_size, channel_buffer_size, queue, handles,
                    accepted, calls, lastAdd >>

\* a processor that takes an empty channel for a closed one, whether or not
\* a handle is left
ProcClosed_IgnoresHandles ==
    /\ UNCHANGED notBatVars
    /\ pc = "running"
    /\ queue = << >>
    /\ pc' = "done"
    /\ IF batch # << >>
          THEN /\ FlushBatch(batch, TRUE, 0)
               /\ lastProc' = "close_flush_ok"
          ELSE /\ lastProc' = "close"
               /\ UNCHANGED << batch, inserted, store >>
    /\ UNCHANGED << max_batch_size, channel_buffer_size, queue, handles,
                    accepted, calls, lastAdd >>

\* select! branch `receiver.recv()` yielding None: every sender is dropped and
\* the channel is empty
ProcClosed ==
    /\ UNCHANGED notBatVars
    /\ pc = "running"
    /\ queue = << >>
    /\ handles = 0
    /\ pc' = "done"
    /\ IF batch # << >>
          THEN \E ok \in BOOLEAN : \E k \in 0..(Len(batch) - 1) :
                 /\ (ok => k = 0)
                 /\ FlushBatch(batch, ok, k)
                 /\ lastProc' = IF ok THEN "close_flush_ok" ELSE "close_flush_err"
          ELSE /\ lastProc' = "close"
               /\ UNCHANGED << batch, inserted, store >>
    /\ UNCHANGED << max_batch_size, channel_buffer_size, queue, handles,
                    accepted, calls, lastAdd >>

\* tick branch that flushes only a full buffer
ProcTick_OnlyWhenFull ==
    /\ UNCHANGED notBatVars
    /\ pc = "running"
    /\ IF Len(batch) >= max_batch_size
          THEN /\ FlushBatch(batch, TRUE, 0)
               /\ lastProc' = "tick_flush_ok"
          ELSE /\ lastProc' = "tick_idle"
               /\ UNCHANGED << batch, inserted, store >>
    /\ UNCHANGED << max_batch_size, channel_buffer_size, queue, handles, pc,
                    accepted, calls, lastAdd >>

\* select! branch `flush_interval.tick()`
ProcTick ==
    /\ UNCHANGED notBatVars
    /\ pc = "running"
    /\ IF batch # << >>
          THEN \E ok \in BOOLEAN : \E k \in 0..(Len(batch) - 1) :
                 /\ (ok => k = 0)
                 /\ FlushBatch(batch, ok, k)
                 /\ lastProc' = IF ok THEN "tick_flush_ok" ELSE "tick_flush_err"
          ELSE /\ lastProc' = "tick_idle"
               /\ UNCHANGED << batch, inserted, store >>
    /\ UNCHANGED << max_batch_size, channel_buffer_size, queue, handles, pc,
                    accepted, calls, lastAdd >>

\* the batcher as the other specifications leave it
BatParked ==
    /\ BatInit
    /\ max_batch_size = 1
    /\ channel_buffer_size = 1

BatNext ==
    \/ TryAdd
    \/ Add
    \/ CloneHandle
    \/ DropHandle
    \/ ProcRecv
    \/ ProcClosed
    \/ ProcTick

\* =========================================================================
\* MetricsTracker
\* =========================================================================
\* METRICS_WINDOW_SECS
METRICS_WINDOW_SECS == 60

\* the level strings the adapters pass: format!("{:?}", level).to_uppercase()
Levels == {"TRACE", "DEBUG", "INFO", "WARN", "ERROR", "FATAL"}

\* the levels the record calls of a run are drawn from: one level that is not
\* an error (the arms for TRACE, DEBUG, INFO and WARN differ only in the
\* counter they bump) and both error levels
RecordLevels == {"INFO", "ERROR", "FATAL"}

\* how far the wall clock moves between two calls
ClockSteps == {1, METRICS_WINDOW_SECS - 1}

\* a value of type f64 obtained as a quotient, kept as the exact fraction
Frac(n, d) == [num |-> n, den |-> d]

\* LogsByLevel::default()
NoLevels == [l \in Levels |-> 0]

\* what `snapshot` holds before the first get_metrics call
NoSnapshot ==
    [valid |-> FALSE, timestamp |-> 0, logs_last_minute |-> 0,
     errors_last_minute |-> 0, logs_by_level |-> NoLevels,
     error_rate |-> Frac(0, 1), logs_per_second |-> Frac(0, 1),
     errors_per_second |-> Frac(0, 1)]

\* the producer tasks that call record_log_by_level concurrently
RecorderIds == {1, 2}

\* a producer that is not inside record_log_by_level
IdleRecorder == [pc |-> "idle", now |-> 0, level |-> ""]

\* MetricsTracker::new
MetInit ==
    /\ clock = 0
    /\ advances = 0
    /\ buckets = << >>
    /\ total_logs = 0
    /\ total_errors = 0
    /\ recorded = << >>
    /\ snapshot = NoSnapshot
    /\ span_calls = << >>
    /\ recorders = [t \in RecorderIds |-> IdleRecorder]

\* MetricsBucket::new
NewBucket(ts) == [timestamp |-> ts, total |-> 0, by |-> NoLevels]

\* bucket.total += 1 and the match on the level string
BumpBucket(b, level) ==
    [b EXCEPT !.total = @ + 1,
              !.by = IF level \in Levels THEN [@ EXCEPT ![level] = @ + 1] ELSE @]

\* the while loop popping front buckets older than the cutoff
RECURSIVE EvictOld(_, _)
EvictOld(bs, cutoff) ==
    IF bs # << >> /\ Head(bs).timestamp < cutoff
       THEN EvictOld(Tail(bs), cutoff)
       ELSE bs

\* the bucket part of record_log_by_level at second `now`
RecordBuckets(bs, now, level) ==
    LET need_new_bucket == IF bs = << >> THEN TRUE
                           ELSE bs[Len(bs)].timestamp # now
        pushed == IF need_new_bucket THEN Append(bs, NewBucket(now)) ELSE bs
        bumped == [pushed EXCEPT ![Len(pushed)] = BumpBucket(@, level)]
    IN EvictOld(bumped, now - METRICS_WINDOW_SECS)

\* MetricsTracker::record_log_by_level (record_log formats the level and
\* calls it)
RecordLevel(level) ==
    /\ total_logs' = total_logs + 1
    /\ total_errors' = IF level \in {"ERROR", "FATAL"}
                          THEN total_errors + 1 ELSE total_errors
    /\ buckets' = RecordBuckets(buckets, clock, level)
    /\ recorded' = Append(recorded, [sec |-> clock, level |-> level])
    /\ UNCHANGED << clock, advances, snapshot, span_calls, recorders >>

\* a record_log / record_log_by_level call of some producer
RecordLogByLevel ==
    /\ UNCHANGED notMetVars
    /\ Len(recorded) < MaxRecords
    /\ \E level \in RecordLevels : RecordLevel(level)

\* record_log_by_level of task t up to `self.buckets.write().await`: the
\* clock is read and the two lifetime counters are bumped, then the task
\* waits for the write lock
RecordBegin(t) ==
    /\ UNCHANGED notMetVars
    /\ recorders[t].pc = "idle"
    /\ Len(recorded) < MaxRecords
    /\ \E level \in RecordLevels :
         /\ recorders' = [recorders EXCEPT ![t] =
                            [pc |-> "lock", now |-> clock, level |-> level]]
         /\ total_logs' = total_logs + 1
         /\ total_errors' = IF level \in {"ERROR", "FATAL"}
                               THEN total_errors + 1 ELSE total_errors
         /\ recorded' = Append(recorded, [sec |-> clock, level |-> level])
    /\ UNCHANGED << clock, advances, buckets, snapshot, span_calls >>

\* a locked part that leaves out the record of a task whose `now` is older
\* than the back bucket
RecordLocked_SkipStale(t) ==
    /\ UNCHANGED notMetVars
    /\ recorders[t].pc = "lock"
    /\ buckets' = IF buckets # << >>
                     /\ buckets[Len(buckets)].timestamp > recorders[t].now
                     THEN buckets
                     ELSE RecordBuckets(buckets, recorders[t].now, recorders[t].level)
    /\ recorders' = [recorders EXCEPT ![t] = IdleRecorder]
    /\ UNCHANGED << clock, advances, total_logs, total_errors, recorded,
                    snapshot, span_calls >>

\* record_log_by_level of task t under the write lock, which it holds to the
\* end of the function: the bucket of the second it read before the lock is
\* bumped and the front is evicted against that second
RecordLocked(t) ==
    /\ UNCHANGED notMetVars
    /\ recorders[t].pc = "lock"
    /\ buckets' = RecordBuckets(buckets, recorders[t].now, recorders[t].level)
    /\ recorders' = [recorders EXCEPT ![t] = IdleRecorder]
    /\ UNCHANGED << clock, advances, total_logs, total_errors, recorded,
                    snapshot, span_calls >>

TaskRecordBegin == \E t \in RecorderIds : RecordBegin(t)
TaskRecordLocked == \E t \in RecorderIds : RecordLocked(t)

\* get_metrics summing every bucket the deque holds, without the cutoff test
RECURSIVE SumBuckets_NoCutoff(_, _)
SumBuckets_NoCutoff(bs, cutoff) ==
    IF bs = << >> THEN [total |-> 0, by |-> NoLevels]
    ELSE LET rest == SumBuckets_NoCutoff(Tail(bs), cutoff)
             b == Head(bs)
         IN [total |-> rest.total + b.total,
             by |-> [l \in Levels |-> rest.by[l] + b.by[l]]]

\* the for loop of get_metrics: sums of the buckets at or after the cutoff
RECURSIVE SumBuckets(_, _)
SumBuckets(bs, cutoff) ==
    IF bs = << >> THEN [total |-> 0, by |-> NoLevels]
    ELSE LET rest == SumBuckets(Tail(bs), cutoff)
             b == Head(bs)
         IN IF b.timestamp >= cutoff
               THEN [total |-> rest.total + b.total,
                     by |-> [l \in Levels |-> rest.by[l] + b.by[l]]]
               ELSE rest

\* error_rate computed without the total > 0 test
ErrorRate_NoZeroGuard(total, errors) == Frac(errors, total)

\* error_rate = if total > 0 { errors / total } else { 0.0 }
ErrorRate(total, errors) ==
    IF total > 0 THEN Frac(errors, total) ELSE Frac(0, 1)

\* the RealtimeMetrics get_metrics builds at second `now`
Metrics(bs, now) ==
    LET sums == SumBuckets(bs, now - METRICS_WINDOW_SECS)
        errors == sums.by["ERROR"] + sums.by["FATAL"]
    IN [valid |-> TRUE,
        timestamp |-> now,
        logs_last_minute |-> sums.total,
        errors_last_minute |-> errors,
        logs_by_level |-> sums.by,
        error_rate |-> ErrorRate(sums.total, errors),
        logs_per_second |-> Frac(sums.total, METRICS_WINDOW_SECS),
        errors_per_second |-> Frac(errors, METRICS_WINDOW_SECS)]

\* MetricsTracker::get_metrics
GetMetrics ==
    /\ UNCHANGED notMetVars
    /\ snapshot' = Metrics(buckets, clock)
    /\ UNCHANGED << clock, advances, buckets, total_logs, total_errors,
                    recorded, span_calls, recorders >>

\* wall-clock time passes between calls
AdvanceClock ==
    /\ UNCHANGED notMetVars
    /\ advances < MaxClockSteps
    /\ advances' = advances + 1
    /\ \E d \in ClockSteps : clock' = clock + d
    /\ UNCHANGED << buckets, total_logs, total_errors, recorded, snapshot,
                    span_calls, recorders >>

\* SpanStatusCode
SpanStatusCodes == {"Unset", "Ok", "Error"}

\* record_span that also counts an error span as an ERROR log of the window
RecordSpan_CountsInWindow ==
    /\ UNCHANGED notMetVars
    /\ Len(span_calls) < MaxSpanCalls
    /\ \E code \in SpanStatusCodes :
         /\ span_calls' = Append(span_calls, code)
         /\ total_errors' = IF code = "Error" THEN total_errors + 1 ELSE total_errors
         /\ buckets' = IF code = "Error" THEN RecordBuckets(buckets, clock, "ERROR")
                                         ELSE buckets
    /\ UNCHANGED << clock, advances, total_logs, recorded, snapshot, recorders >>

\* MetricsTracker::record_span: a span of status Error bumps total_errors
RecordSpan ==
    /\ UNCHANGED notMetVars
    /\ Len(span_calls) < MaxSpanCalls
    /\ \E code \in SpanStatusCodes :
         /\ span_calls' = Append(span_calls, code)
         /\ total_errors' = IF code = "Error" THEN total_errors + 1 ELSE total_errors
    /\ UNCHANGED << clock, advances, buckets, total_logs, recorded, snapshot, recorders >>

\* the tracker as the OTLP exporters and the log adapters use it together
SpanMetNext ==
    \/ RecordLogByLevel
    \/ RecordSpan
    \/ GetMetrics

MetNext ==
    \/ RecordLogByLevel
    \/ GetMetrics
    \/ AdvanceClock

\* wall-clock time passes while producer tasks are inside record_log_by_level
TaskAdvanceClock == advances < MaxTaskClockSteps /\ AdvanceClock

\* producer tasks recording concurrently while time passes
TaskMetNext ==
    \/ TaskRecordBegin
    \/ TaskRecordLocked
    \/ TaskAdvanceClock

\* =========================================================================
\* WsBroadcaster and the WebSocket handlers
\* =========================================================================
\* WsBroadcaster::new(1000) in main
ConfiguredCapacity == 1000

\* the WebSocket connections of a run
SubIds == {1, 2}

\* usize::next_power_of_two
RECURSIVE NextPow2From(_, _)
NextPow2From(p, n) == IF p >= n THEN p ELSE NextPow2From(2 * p, n)
NextPowerOfTwo(n) == NextPow2From(1, n)

\* a ring of exactly `capacity` slots
RingSize_NoRounding == capacity

\* broadcast::channel(capacity) allocates capacity.next_power_of_two() slots
RingSize == NextPowerOfTwo(capacity)

\* broadcast::channel: slot i starts with pos = i - len, so that a receiver
\* at position i finds it empty; WsBroadcaster::new drops the first receiver
BcInitWith(cap) ==
    /\ capacity = cap
    /\ buffer = [i \in 0..(RingSize - 1) |->
                    [pos |-> i - RingSize, rem |-> 0, val |-> 0]]
    /\ tail_pos = 0
    /\ rx_cnt = 0
    /\ subs = [s \in SubIds |-> [state |-> "new", next |-> 0, start |-> 0]]
    /\ published = 0
    /\ posLog = << >>
    /\ frames = [s \in SubIds |-> << >>]

\* WsBroadcaster::new(capacity)
BcInit == \E cap \in 1..MaxCapacity : BcInitWith(cap)

\* the broadcaster as the other specifications leave it
BcParked == BcInitWith(1)

\* a send that waits, like a bounded queue, while the slot at the tail still
\* holds a value some receiver has not read
BroadcastLog_WaitForReaders ==
    /\ UNCHANGED notBcVars
    /\ published' = published + 1
    /\ IF rx_cnt = 0
          THEN UNCHANGED << buffer, tail_pos, posLog >>
          ELSE /\ ~(buffer[tail_pos % RingSize].pos >= 0
                     /\ buffer[tail_pos % RingSize].rem > 0)
               /\ buffer' = [buffer EXCEPT ![tail_pos % RingSize] =
                                [pos |-> tail_pos, rem |-> rx_cnt,
                                 val |-> published + 1]]
               /\ tail_pos' = tail_pos + 1
               /\ posLog' = Append(posLog, published + 1)
    /\ UNCHANGED << capacity, rx_cnt, subs, frames >>

\* broadcast::Sender::send behind broadcast_log / broadcast_span /
\* broadcast_metrics: with no receiver the value is returned in a SendError
\* (ignored by `let _ =`), otherwise it overwrites the slot at the tail
SenderSend ==
    /\ published' = published + 1
    /\ IF rx_cnt = 0
          THEN UNCHANGED << buffer, tail_pos, posLog >>
          ELSE /\ buffer' = [buffer EXCEPT ![tail_pos % RingSize] =
                                [pos |-> tail_pos, rem |-> rx_cnt,
                                 val |-> published + 1]]
               /\ tail_pos' = tail_pos + 1
               /\ posLog' = Append(posLog, published + 1)
    /\ UNCHANGED << capacity, rx_cnt, subs, frames >>

\* a broadcast_log / broadcast_span / broadcast_metrics call of some producer
BroadcastLog ==
    /\ UNCHANGED notBcVars
    /\ SenderSend

\* WsBroadcaster::subscribe in handle_socket: the new receiver starts at the
\* tail
Subscribe(s) ==
    /\ UNCHANGED notBcVars
    /\ subs[s].state = "new"
    /\ subs' = [subs EXCEPT ![s] =
                  [state |-> "active", next |-> tail_pos, start |-> tail_pos]]
    /\ rx_cnt' = rx_cnt + 1
    /\ UNCHANGED << capacity, buffer, tail_pos, published, posLog, frames >>

\* a lagging receiver that reports the gap but jumps to the tail
RecvRef_JumpToTail(next) ==
    LET slot == buffer[next % RingSize]
    IN IF slot.pos = next
          THEN [kind |-> "msg", val |-> slot.val, n |-> 0, next |-> next + 1]
       ELSE IF slot.pos + RingSize = next
          THEN [kind |-> "empty", val |-> 0, n |-> 0, next |-> next]
       ELSE [kind |-> "lagged", val |-> 0,
             n |-> (tail_pos - RingSize) - next, next |-> tail_pos]

\* broadcast::Receiver::recv_ref for a receiver whose cursor is `next`: the
\* value at the cursor, Empty when the cursor is at the tail, or Lagged(missed)
\* with the cursor moved to the oldest slot when the slot was overwritten
RecvRef(next) ==
    LET slot == buffer[next % RingSize]
        oldest == tail_pos - RingSize
        missed == oldest - next
    IN IF slot.pos = next
          THEN [kind |-> "msg", val |-> slot.val, n |-> 0, next |-> next + 1]
       ELSE IF slot.pos + RingSize = next
          THEN [kind |-> "empty", val |-> 0, n |-> 0, next |-> next]
       ELSE IF missed = 0
          THEN [kind |-> "msg", val |-> slot.val, n |-> 0, next |-> next + 1]
       ELSE [kind |-> "lagged", val |-> 0, n |-> missed, next |-> oldest]

\* a send_task that treats Lagged like Closed: it sends the Error frame and
\* leaves the loop, which ends the connection and drops the receiver
HandlerRecv_CloseOnLag(s) ==
    /\ UNCHANGED notBcVars
    /\ subs[s].state = "active"
    /\ LET r == RecvRef(subs[s].next)
       IN /\ r.kind # "empty"
          /\ IF r.kind = "msg"
                THEN /\ subs' = [subs EXCEPT ![s].next = r.next]
                     /\ buffer' = [buffer EXCEPT
                                     ![subs[s].next % RingSize].rem = @ - 1]
                     /\ frames' = [frames EXCEPT ![s] =
                                     Append(@, [kind |-> "msg", val |-> r.val])]
                     /\ UNCHANGED rx_cnt
                ELSE /\ subs' = [subs EXCEPT ![s].next = r.next, ![s].state = "gone"]
                     /\ rx_cnt' = rx_cnt - 1
                     /\ buffer' = [i \in DOMAIN buffer |->
                                     IF buffer[i].pos >= r.next
                                        THEN [buffer[i] EXCEPT !.rem = @ - 1]
                                        ELSE buffer[i]]
                     /\ frames' = [frames EXCEPT ![s] =
                                     Append(@, [kind |-> "lagged", val |-> r.n])]
    /\ UNCHANGED << capacity, tail_pos, published, posLog >>

\* one turn of the send_task loop of handle_socket: rx.recv() yields a message,
\* which is serialized and sent as a frame, or Lagged(n), which is sent as an
\* Error frame; on Empty the task stays suspended
HandlerRecv(s) ==
    /\ UNCHANGED notBcVars
    /\ subs[s].state = "active"
    /\ LET r == RecvRef(subs[s].next)
       IN /\ r.kind # "empty"
          /\ subs' = [subs EXCEPT ![s].next = r.next]
          /\ IF r.kind = "msg"
                THEN /\ buffer' = [buffer EXCEPT
                                     ![subs[s].next % RingSize].rem = @ - 1]
                     /\ frames' = [frames EXCEPT ![s] =
                                     Append(@, [kind |-> "msg", val |-> r.val])]
                ELSE /\ UNCHANGED buffer
                     /\ frames' = [frames EXCEPT ![s] =
                                     Append(@, [kind |-> "lagged", val |-> r.n])]
    /\ UNCHANGED << capacity, tail_pos, rx_cnt, published, posLog >>

\* the binary search of broadcast::Sender::len over the ring, oldest slot
\* (the one at the tail) first: the first slot some receiver has not read
RECURSIVE FirstUnread(_, _)
FirstUnread(low, high) ==
    IF low >= high THEN low
    ELSE LET mid == low + (high - low) \div 2
             idx == ((tail_pos % RingSize) + mid) % RingSize
         IN IF buffer[idx].rem = 0 THEN FirstUnread(mid + 1, high)
                                   ELSE FirstUnread(low, mid)

\* WsBroadcaster::subscriber_count: self.sender.len(), the number of queued
\* values, those that some live receiver has still to read
SubscriberCount == RingSize - FirstUnread(0, RingSize)

\* the connection ends (Close frame, socket error or failed send): both tasks
\* stop and the receiver is dropped, releasing every slot it had not read
Disconnect(s) ==
    /\ UNCHANGED notBcVars
    /\ subs[s].state = "active"
    /\ subs' = [subs EXCEPT ![s].state = "gone"]
    /\ rx_cnt' = rx_cnt - 1
    /\ buffer' = [i \in DOMAIN buffer |->
                    IF buffer[i].pos >= subs[s].next
                       THEN [buffer[i] EXCEPT !.rem = @ - 1]
                       ELSE buffer[i]]
    /\ UNCHANGED << capacity, tail_pos, published, posLog, frames >>

\* =========================================================================
\* AlertManager
\* =========================================================================
\* AlertManager::new(.., 60) in main
CooldownSecs == 60

\* the rules of the alerts collection, in the order get_alerts returns them
RuleOrder == << 1, 2 >>
RuleIds == Range(RuleOrder)

\* how far the wall clock moves between two evaluations
AlertClockSteps == {15, 45}

\* a comparison that also holds for equal quotients
Gt_OrEqual(a, b) == a.num * b.den >= b.num * a.den

\* f64 comparison a > b of two quotients with positive denominators
Gt(a, b) == a.num * b.den > b.num * a.den

\* the conditions a rule of the run may carry (thresholds are user input)
ErrorRateCond == [type |-> "error_rate", level |-> "", threshold |-> Frac(1, 2)]
ErrorsPerSecondCond ==
    [type |-> "errors_per_second", level |-> "", threshold |-> Frac(1, 12)]
LogsPerSecondCond ==
    [type |-> "logs_per_second", level |-> "", threshold |-> Frac(1, 10)]
LevelCountCond == [type |-> "level_count", level |-> "ERROR", threshold |-> Frac(5, 1)]

\* an AlertRule as create_alert stores it
NewRule(cond, action, enabled) ==
    [enabled |-> enabled, condition |-> cond, action |-> action,
     last_triggered |-> << >>, trigger_count |-> 0]

\* what `lastCheck` holds before the first check_alerts call
NoCheck == [result |-> "none", now |-> 0, metrics |-> NoSnapshot, triggered |-> << >>]

\* AlertManager::new with the rules the collection holds
AlInitWith(rule2) ==
    /\ cooldown_secs = CooldownSecs
    /\ rules = [r \in RuleIds |->
                  IF r = 1 THEN NewRule(ErrorRateCond, "log", TRUE) ELSE rule2]
    /\ last_triggers = << >>
    /\ dispatched = << >>
    /\ lastCheck = NoCheck
    /\ checker = "idle"

AlInit ==
    \E rule2 \in { NewRule(ErrorsPerSecondCond, "webhook", TRUE),
                    NewRule(LogsPerSecondCond, "webhook", FALSE),
                    NewRule(LevelCountCond, "webhook", TRUE) } :
        AlInitWith(rule2)

\* the alert manager as the other specifications leave it
AlParked == AlInitWith(NewRule(LevelCountCond, "webhook", TRUE))

\* the deque of the metrics tracker at an evaluation: one bucket of the
\* current second holding i INFO and e ERROR records
TrackerInput(i, e) ==
    << [timestamp |-> clock, total |-> i + e,
        by |-> [NoLevels EXCEPT !["INFO"] = i, !["ERROR"] = e]] >>

TrackerInputs ==
    { TrackerInput(0, 0), TrackerInput(5, 5), TrackerInput(4, 6) }

\* the match on alert.condition: should_trigger
ShouldTrigger(cond, m) ==
    CASE cond.type = "error_rate" -> Gt(m.error_rate, cond.threshold)
      [] cond.type = "errors_per_second" -> Gt(m.errors_per_second, cond.threshold)
      [] cond.type = "logs_per_second" -> Gt(m.logs_per_second, cond.threshold)
      [] cond.type = "level_count" ->
            Gt(Frac(IF cond.level \in Levels THEN m.logs_by_level[cond.level] ELSE 0, 1),
               cond.threshold)

\* a cooldown that still holds when exactly cooldown_secs have elapsed
InCooldown_Inclusive(lt, id, now) ==
    /\ id \in DOMAIN lt
    /\ now - lt[id] <= cooldown_secs

\* a cooldown test that also honours the persisted last_triggered of the rule
InCooldown_Persisted(lt, id, now) ==
    \/ /\ id \in DOMAIN lt
       /\ now - lt[id] < cooldown_secs
    \/ /\ rules[id].last_triggered # << >>
       /\ now - rules[id].last_triggered[1] < cooldown_secs

\* the cooldown test: a last trigger is cached and elapsed < cooldown_secs
InCooldown(lt, id, now) ==
    /\ id \in DOMAIN lt
    /\ now - lt[id] < cooldown_secs

\* firing that caches the trigger time only when the action succeeded
Fire_NoCooldownOnFailure(acc, r, now, actok, dbok) ==
    [lt |-> IF actok
               THEN [x \in DOMAIN acc.lt \cup {r} |-> IF x = r THEN now ELSE acc.lt[x]]
               ELSE acc.lt,
     rules |-> IF dbok
                  THEN [acc.rules EXCEPT ![r].last_triggered = << now >>,
                                         ![r].trigger_count = @ + 1]
                  ELSE acc.rules,
     disp |-> Append(acc.disp, [rule |-> r, timestamp |-> now, delivered |-> actok]),
     triggered |-> Append(acc.triggered, r)]

\* what firing rule r at `now` does: execute_action (its error is only
\* logged), the cache insert, the update_one on the collection (its result is
\* dropped), the push on `triggered`
Fire(acc, r, now, actok, dbok) ==
    [lt |-> [x \in DOMAIN acc.lt \cup {r} |-> IF x = r THEN now ELSE acc.lt[x]],
     rules |-> IF dbok
                  THEN [acc.rules EXCEPT ![r].last_triggered = << now >>,
                                         ![r].trigger_count = @ + 1]
                  ELSE acc.rules,
     disp |-> Append(acc.disp, [rule |-> r, timestamp |-> now, delivered |-> actok]),
     triggered |-> Append(acc.triggered, r)]

\* a loop body without the test of alert.enabled
EvalRule_IgnoresEnabled(acc, r, alert, m, now, actok, dbok) ==
    IF InCooldown(acc.lt, r, now) THEN acc
    ELSE IF ~ShouldTrigger(alert.condition, m) THEN acc
    ELSE Fire(acc, r, now, actok, dbok)

\* the body of the for loop of check_alerts for the loaded rule `alert` with
\* id r
EvalRule(acc, r, alert, m, now, actok, dbok) ==
    IF ~alert.enabled THEN acc
    ELSE IF InCooldown(acc.lt, r, now) THEN acc
    ELSE IF ~ShouldTrigger(alert.condition, m) THEN acc
    ELSE Fire(acc, r, now, actok, dbok)

\* a loop that gives up at the first rule whose action fails, before the
\* trigger time is cached
RECURSIVE EvalRules_StopOnFailure(_, _, _, _, _, _, _)
EvalRules_StopOnFailure(acc, order, alerts, m, now, actok, dbok) ==
    IF order = << >> THEN acc
    ELSE LET r == Head(order)
             fires == /\ alerts[r].enabled
                      /\ ~InCooldown(acc.lt, r, now)
                      /\ ShouldTrigger(alerts[r].condition, m)
         IN IF fires /\ ~actok[r]
               THEN [acc EXCEPT !.disp = Append(@, [rule |-> r, timestamp |-> now,
                                                   delivered |-> FALSE])]
               ELSE EvalRules_StopOnFailure(
                        EvalRule(acc, r, alerts[r], m, now, actok[r], dbok[r]),
                        Tail(order), alerts, m, now, actok, dbok)

\* the for loop of check_alerts over the loaded rules
RECURSIVE EvalRules(_, _, _, _, _, _, _)
EvalRules(acc, order, alerts, m, now, actok, dbok) ==
    IF order = << >> THEN acc
    ELSE LET r == Head(order)
         IN EvalRules(EvalRule(acc, r, alerts[r], m, now, actok[r], dbok[r]),
                      Tail(order), alerts, m, now, actok, dbok)

\* AlertManager::check_alerts when get_alerts succeeds: one snapshot, one
\* `now`, every rule in turn
CheckAlerts ==
    /\ UNCHANGED notAlVars
    /\ UNCHANGED metVars
    /\ checker = "idle"
    /\ \E bs \in TrackerInputs :
       \E actok \in [RuleIds -> BOOLEAN] :
       \E dbok \in [RuleIds -> BOOLEAN] :
         LET m == Metrics(bs, clock)
             acc == EvalRules([lt |-> last_triggers, rules |-> rules,
                               disp |-> dispatched, triggered |-> << >>],
                              RuleOrder, rules, m, clock, actok, dbok)
         IN /\ last_triggers' = acc.lt
            /\ rules' = acc.rules
            /\ dispatched' = acc.disp
            /\ lastCheck' = [result |-> "ok", now |-> clock, metrics |-> m,
                             triggered |-> acc.triggered]
    /\ UNCHANGED << cooldown_secs, checker >>

\* a failed load that also forgets the cached trigger times
CheckAlertsFail_ClearsCooldown ==
    /\ UNCHANGED notAlVars
    /\ UNCHANGED metVars
    /\ checker = "idle"
    /\ lastCheck' = [result |-> "err", now |-> clock, metrics |-> NoSnapshot,
                     triggered |-> << >>]
    /\ last_triggers' = << >>
    /\ UNCHANGED << cooldown_secs, rules, dispatched, checker >>

\* AlertManager::check_alerts when get_alerts fails: `?` returns the error
CheckAlertsFail ==
    /\ UNCHANGED notAlVars
    /\ UNCHANGED metVars
    /\ checker = "idle"
    /\ lastCheck' = [result |-> "err", now |-> clock, metrics |-> NoSnapshot,
                     triggered |-> << >>]
    /\ UNCHANGED << cooldown_secs, rules, last_triggers, dispatched, checker >>

\* the rules of the evaluation order up to the first one that fires with an
\* action that never completes (<< >> when there is none)
RECURSIVE UpToHang(_, _, _, _, _, _)
UpToHang(lt, order, alerts, m, now, hangs) ==
    IF order = << >> THEN << >>
    ELSE LET r == Head(order)
             fires == /\ alerts[r].enabled
                      /\ ~InCooldown(lt, r, now)
                      /\ ShouldTrigger(alerts[r].condition, m)
         IN IF fires /\ hangs[r] THEN << r >>
            ELSE LET rest == UpToHang(
                        IF fires
                           THEN [x \in DOMAIN lt \cup {r} |-> IF x = r THEN now ELSE lt[x]]
                           ELSE lt,
                        Tail(order), alerts, m, now, hangs)
                 IN IF rest = << >> THEN << >> ELSE << r >> \o rest

\* AlertManager::check_alerts when the `.await` of execute_action never
\* completes for a rule that fires (http_client is reqwest::Client::new(),
\* which sets no timeout): the rules before it are evaluated as usual, the
\* notification of that rule is handed to execute_action, and the call, and
\* with it alert_checker_task, gets no further
CheckAlertsHang ==
    /\ UNCHANGED notAlVars
    /\ UNCHANGED metVars
    /\ checker = "idle"
    /\ \E bs \in TrackerInputs :
       \E hangs \in [RuleIds -> BOOLEAN] :
       \E actok \in [RuleIds -> BOOLEAN] :
       \E dbok \in [RuleIds -> BOOLEAN] :
         LET m == Metrics(bs, clock)
             upto == UpToHang(last_triggers, RuleOrder, rules, m, clock, hangs)
             before == SubSeq(upto, 1, Len(upto) - 1)
             acc == EvalRules([lt |-> last_triggers, rules |-> rules,
                               disp |-> dispatched, triggered |-> << >>],
                              before, rules, m, clock, actok, dbok)
         IN /\ upto # << >>
            /\ rules[upto[Len(upto)]].action = "webhook"
            /\ last_triggers' = acc.lt
            /\ rules' = acc.rules
            /\ dispatched' = Append(acc.disp, [rule |-> upto[Len(upto)],
                                               timestamp |-> clock,
                                               delivered |-> FALSE])
            /\ checker' = "stuck"
    /\ UNCHANGED << cooldown_secs, lastCheck >>

\* wall-clock time passes between two ticks of alert_checker_task
AlAdvance ==
    /\ UNCHANGED notAlVars
    /\ UNCHANGED alVars
    /\ advances < MaxAlertSteps
    /\ advances' = advances + 1
    /\ \E d \in AlertClockSteps : clock' = clock + d
    /\ UNCHANGED << buckets, total_logs, total_errors, recorded, snapshot,
                    span_calls, recorders >>

AlNext ==
    \/ CheckAlerts
    \/ CheckAlertsFail
    \/ AlAdvance

\* AlertManager::new with a webhook rule first in the collection and a log
\* rule after it
AlWebhookFirst ==
    /\ cooldown_secs = CooldownSecs
    /\ rules = [r \in RuleIds |->
                  IF r = 1 THEN NewRule(ErrorRateCond, "webhook", TRUE)
                           ELSE NewRule(ErrorsPerSecondCond, "log", TRUE)]
    /\ last_triggers = << >>
    /\ dispatched = << >>
    /\ lastCheck = NoCheck
    /\ checker = "idle"

\* the checker with webhooks that may never answer
AlHangNext ==
    \/ CheckAlerts
    \/ CheckAlertsFail
    \/ CheckAlertsHang
    \/ AlAdvance

\* when the rules of a restarted process were last persisted as triggered:
\* 10 seconds before the first evaluation
PersistedLastTriggered == 0 - 10

\* AlertManager::new in a process started while the collection holds rules
\* that fired in an earlier process
AlRestarted ==
    /\ cooldown_secs = CooldownSecs
    /\ \E enabled2 \in BOOLEAN :
         rules = [r \in RuleIds |->
                    [NewRule(IF r = 1 THEN ErrorRateCond ELSE LevelCountCond,
                             IF r = 1 THEN "log" ELSE "webhook",
                             r = 1 \/ enabled2)
                       EXCEPT !.last_triggered = << PersistedLastTriggered >>,
                              !.trigger_count = 1]]
    /\ last_triggers = << >>
    /\ dispatched = << >>
    /\ lastCheck = NoCheck
    /\ checker = "idle"

\* =========================================================================
\* SpanRepository: the trace store
\* =========================================================================
\* the trace ids of a run
TraceIds == {"t1", "t2"}

\* the spans a run may ingest: [trace_id, start_time_unix_nano]
SpanInputs ==
    { [trace_id |-> "t1", start_time_unix_nano |-> 1],
      [trace_id |-> "t1", start_time_unix_nano |-> 2],
      [trace_id |-> "t2", start_time_unix_nano |-> 1] }

\* the log entries a run may store: [trace_id (optional), timestamp in half
\* milliseconds]
LogInputs ==
    { [trace_id |-> << "t1" >>, timestamp |-> 1],
      [trace_id |-> << "t1" >>, timestamp |-> 3],
      [trace_id |-> << "t2" >>, timestamp |-> 1],
      [trace_id |-> << >>, timestamp |-> 1] }

\* bson::DateTime::from_chrono keeps whole milliseconds
ToBsonDateTime(t) == t \div 2

\* SpanRepository::new over the two collections, both empty
TrInit ==
    /\ spans_collection = << >>
    /\ logs_collection = << >>
    /\ lastTrace = [trace_id |-> "", result |-> "none yet", spans |-> << >>,
                    logs |-> << >>]

\* the spans of trace "t1" all have a parent (its root span was never
\* stored), those of "t2" are root spans
ParentOf(t) == IF t = "t1" THEN << 0 >> ELSE << >>

\* the runs fill the collections first and query them afterwards: a query
\* only reads the collections, so what it returns does not depend on the
\* queries made before it
Queried == lastTrace.result # "none yet"

\* the document bson::to_document(span).unwrap_or_default() yields: the
\* fields of the span, or the empty document when serialization fails
SpanDocument(span, ser_ok) ==
    IF ser_ok
       THEN [trace_id |-> << span.trace_id >>, span_id |-> span.span_id,
             parent_span_id |-> span.parent_span_id,
             start_time_unix_nano |-> span.start_time_unix_nano]
       ELSE [trace_id |-> << >>]

\* SpanRepository::insert_spans of one span; insert_many may fail
InsertSpans ==
    /\ UNCHANGED notTrVars
    /\ Len(spans_collection) < MaxSpans
    /\ ~Queried
    /\ \E in \in SpanInputs : \E ser_ok \in BOOLEAN : \E ok \in BOOLEAN :
         LET span == [trace_id |-> in.trace_id,
                      span_id |-> Len(spans_collection) + 1,
                      parent_span_id |-> ParentOf(in.trace_id),
                      start_time_unix_nano |-> in.start_time_unix_nano]
         IN spans_collection' =
               IF ok THEN Append(spans_collection, SpanDocument(span, ser_ok))
                     ELSE spans_collection
    /\ UNCHANGED << logs_collection, lastTrace >>

\* LogRepository::log_to_document: the timestamp becomes a BSON DateTime and
\* trace_id is present only when the entry has one
LogToDocument(log) ==
    [id |-> log.id, trace_id |-> log.trace_id,
     timestamp |-> ToBsonDateTime(log.timestamp)]

\* a flushed log entry reaches the logs collection
InsertTraceLog ==
    /\ UNCHANGED notTrVars
    /\ Len(logs_collection) < MaxTraceLogs
    /\ ~Queried
    /\ \E in \in LogInputs :
         logs_collection' =
            Append(logs_collection,
                   LogToDocument([id |-> Len(logs_collection) + 1,
                                  trace_id |-> in.trace_id,
                                  timestamp |-> in.timestamp]))
    /\ UNCHANGED << spans_collection, lastTrace >>

\* find that returns the matching documents in insertion order
FindSorted_Unsorted(coll, tid, key) ==
    LET match == { i \in DOMAIN coll : coll[i].trace_id = << tid >> }
        n == Cardinality(match)
    IN { [k \in 1..n |-> coll[f[k]]] :
           f \in { g \in [1..n -> match] :
                     /\ \A a, b \in 1..n : a # b => g[a] # g[b]
                     /\ \A a, b \in 1..n : a < b => g[a] < g[b] } }

\* the orders in which find(filter).sort({key: 1}) may return the documents
\* of `coll` that match trace_id = tid: every arrangement of the matching
\* documents with non-decreasing key (equal keys come in any order)
FindSorted(coll, tid, key) ==
    LET match == { i \in DOMAIN coll : coll[i].trace_id = << tid >> }
        n == Cardinality(match)
    IN { [k \in 1..n |-> coll[f[k]]] :
           f \in { g \in [1..n -> match] :
                     /\ \A a, b \in 1..n : a # b => g[a] # g[b]
                     /\ \A a, b \in 1..n : a < b => coll[g[a]][key] <= coll[g[b]][key] } }


\* bson::from_document::<Span>(doc).ok(): the span of a document that has
\* the required fields, nothing otherwise
SpanFromDocument(doc) ==
    IF doc.trace_id # << >> /\ "start_time_unix_nano" \in DOMAIN doc
       THEN << [trace_id |-> doc.trace_id[1], span_id |-> doc.span_id,
                parent_span_id |-> doc.parent_span_id,
                start_time_unix_nano |-> doc.start_time_unix_nano] >>
       ELSE << >>

\* bson::from_document::<LogEntry>(doc).ok(): the BSON DateTime becomes a
\* chrono timestamp of whole milliseconds
LogFromDocument(doc) ==
    << [id |-> doc.id, trace_id |-> doc.trace_id, timestamp |-> 2 * doc.timestamp] >>

\* docs.into_iter().filter_map(..).collect()
RECURSIVE FilterMap(_, _)
FilterMap(docs, type) ==
    IF docs = << >> THEN << >>
    ELSE (IF type = "Span" THEN SpanFromDocument(Head(docs))
                           ELSE LogFromDocument(Head(docs)))
         \o FilterMap(Tail(docs), type)

\* SpanRepository::get_trace_spans: the results the query may give
GetTraceSpans(tid) ==
    { FilterMap(docs, "Span") :
        docs \in FindSorted(spans_collection, tid, "start_time_unix_nano") }

\* SpanRepository::get_trace_logs: the results the query may give
GetTraceLogs(tid) ==
    { FilterMap(docs, "LogEntry") :
        docs \in FindSorted(logs_collection, tid, "timestamp") }

\* get_trace_detail that also answers for a trace that has only logs
TraceDetail_LogsSuffice(tid, spans, logs) ==
    IF spans = << >> /\ logs = << >>
       THEN [trace_id |-> tid, result |-> "None", spans |-> << >>, logs |-> << >>]
       ELSE [trace_id |-> tid, result |-> "Some", spans |-> spans, logs |-> logs]

\* what get_trace_detail does with the spans it got: None when there are
\* none, otherwise the detail with the logs of the trace
TraceDetail(tid, spans, logs) ==
    IF spans = << >>
       THEN [trace_id |-> tid, result |-> "None", spans |-> << >>, logs |-> << >>]
       ELSE [trace_id |-> tid, result |-> "Some", spans |-> spans, logs |-> logs]

\* SpanRepository::get_trace_detail with both queries succeeding
GetTraceDetail ==
    /\ UNCHANGED notTrVars
    /\ \E tid \in TraceIds :
       \E spans \in GetTraceSpans(tid) : \E logs \in GetTraceLogs(tid) :
         lastTrace' = TraceDetail(tid, spans, logs)
    /\ UNCHANGED << spans_collection, logs_collection >>

\* SpanRepository::get_trace_detail when a query fails: `?` returns the error
\* (the logs are queried only when spans were found)
GetTraceDetailFail ==
    /\ UNCHANGED notTrVars
    /\ \E tid \in TraceIds :
         lastTrace' = [trace_id |-> tid, result |-> "Err", spans |-> << >>,
                       logs |-> << >>]
    /\ UNCHANGED << spans_collection, logs_collection >>

TrNext ==
    \/ InsertSpans
    \/ InsertTraceLog
    \/ GetTraceDetail
    \/ GetTraceDetailFail

\* =========================================================================
\* Syslog TCP server
\* =========================================================================
\* the TCP connections of a run
SyslogConns == {1, 2}

\* One string per byte. "<" followed by "i" or "e" stands for a well-formed
\* syslog message of severity Informational or Error; "x" is a byte no
\* syslog message starts with.
Digits == {"0", "1", "2", "3", "4", "5", "6", "7", "8", "9"}
Whitespace == {" ", "\n"}

\* the byte streams a peer may send before it closes the connection
WireOctet == << "2", " ", "<", "i", "2", " ", "<", "e" >>
WireNewline == << "<", "i", "\n", "<", "e", "\n" >>
WireOctetThenLine == << "2", " ", "<", "i", "<", "e", "\n" >>
WireLineThenOctet == << "<", "i", "\n", "2", " ", "<", "e" >>
WireBlankFirst == << "\n", "<", "e", "\n", "x", "\n" >>
Wires == { << >>, WireOctet, WireNewline, WireOctetThenLine, WireLineThenOctet,
           WireBlankFirst }

\* u8::is_ascii_digit
IsAsciiDigit(b) == b \in Digits

\* framing chosen by looking for the "<" of a PRI instead of a digit
UseOctetCounting_UnlessPri(first) == first # "<"

\* let use_octet_counting = peek_buf[0].is_ascii_digit()
UseOctetCounting(first) == IsAsciiDigit(first)

DigitValue(b) ==
    CASE b = "0" -> 0 [] b = "1" -> 1 [] b = "2" -> 2 [] b = "3" -> 3
      [] b = "4" -> 4 [] b = "5" -> 5 [] b = "6" -> 6 [] b = "7" -> 7
      [] b = "8" -> 8 [] b = "9" -> 9

\* str::parse::<usize> of a string of ASCII digits
RECURSIVE ParseUsize(_)
ParseUsize(ds) ==
    IF ds = << >> THEN 0
    ELSE 10 * ParseUsize(SubSeq(ds, 1, Len(ds) - 1)) + DigitValue(ds[Len(ds)])

\* str::trim
RECURSIVE Trim(_)
Trim(bs) ==
    IF bs = << >> THEN bs
    ELSE IF Head(bs) \in Whitespace THEN Trim(Tail(bs))
    ELSE IF bs[Len(bs)] \in Whitespace THEN Trim(SubSeq(bs, 1, Len(bs) - 1))
    ELSE bs

\* the number of leading whitespace bytes trim removes
RECURSIVE LeadingWhitespace(_)
LeadingWhitespace(bs) ==
    IF bs # << >> /\ Head(bs) \in Whitespace
       THEN 1 + LeadingWhitespace(Tail(bs)) ELSE 0

\* parse_octet_counted: MSG-LEN SP MSG at the front of data. Err when there
\* is no space, when the length is not a number, or when fewer than MSG-LEN
\* bytes follow the space. The lengths of the streams of this section are
\* small; ParseOctetCountedWide computes the same for every length of the
\* width of usize.
ParseOctetCounted(data) ==
    LET spaces == { i \in DOMAIN data : data[i] = " " }
        err == [ok |-> FALSE, end_pos |-> 0, msg_start |-> 0, msg |-> << >>]
    IN IF spaces = {} THEN err
       ELSE LET sp == CHOOSE i \in spaces : \A j \in spaces : i <= j
                text == SubSeq(data, 1, sp - 1)
                len_str == IF text # << >> /\ Head(text) = "+" THEN Tail(text) ELSE text
            IN IF len_str = << >> \/ \E i \in DOMAIN len_str : ~IsAsciiDigit(len_str[i])
                  THEN err
               ELSE LET msg_len == ParseUsize(len_str)
                        msg_end == sp + msg_len
                    IN IF msg_end > Len(data) THEN err
                       ELSE [ok |-> TRUE, end_pos |-> msg_end, msg_start |-> sp,
                             msg |-> SubSeq(data, sp + 1, msg_end)]

\* parse_syslog_message: the trimmed data must be a syslog message; its
\* severity gives the level of the LogEntry
ParseSyslogMessage(data) ==
    LET m == Trim(data)
    IN IF Len(m) = 2 /\ m[1] = "<" /\ m[2] \in {"i", "e"}
          THEN [ok |-> TRUE, level |-> IF m[2] = "e" THEN "ERROR" ELSE "INFO"]
          ELSE [ok |-> FALSE, level |-> ""]

\* AsyncBufReadExt::read_line on the bytes not yet read: everything up to and
\* including the first newline, or all that is left at end of stream
ReadLine(wire) ==
    LET nls == { i \in DOMAIN wire : wire[i] = "\n" }
    IN IF nls = {} THEN wire
       ELSE SubSeq(wire, 1, CHOOSE i \in nls : \A j \in nls : i <= j)

\* a connection as accept() hands it to handle_connection
NewConn(wire) ==
    [pc |-> "accepted", sent |-> wire, wire |-> wire, framing |-> "undecided",
     buffer |-> << >>, pending |-> << >>]

SysInitWith(w1, w2) ==
    /\ conns = [c \in SyslogConns |-> NewConn(IF c = 1 THEN w1 ELSE w2)]
    /\ processed = << >>

SysInit == \E w1 \in Wires : \E w2 \in {WireOctet, WireNewline} : SysInitWith(w1, w2)

\* the syslog server as the other specifications leave it
SysParked == SysInitWith(<< >>, << >>)

\* how many bytes of the stream of connection c lie before `rest`
Offset(c, rest) == Len(conns[c].sent) - Len(rest)

\* a handler that went on without awaiting its process_message calls
HandlerBlocked_Spawned(c) == FALSE

\* `process_message(..).await` in both handlers: the handler does not go on
\* while a process_message call of its connection is not finished
HandlerBlocked(c) == conns[c].pending # << >>

\* process_message up to its await, called by the handler `via` for the
\* bytes `data` that start at byte `off` of the stream of connection c: a
\* parse error is only logged and the call is over; a parsed entry waits for
\* the metrics tracker. `next` is the connection as the handler's own
\* reading leaves it.
ProcessMessage(c, data, off, via, next) ==
    LET p == ParseSyslogMessage(data)
    IN /\ UNCHANGED << batVars, metVars, bcVars >>
       /\ IF p.ok
             THEN /\ conns' = [conns EXCEPT ![c] =
                        [next EXCEPT !.pending = Append(@,
                           [data |-> data, off |-> off, via |-> via,
                            level |-> p.level])]]
                  /\ UNCHANGED processed
             ELSE /\ conns' = [conns EXCEPT ![c] = next]
                  /\ processed' = Append(processed,
                        [conn |-> c, data |-> data, off |-> off, via |-> via,
                         parsed |-> FALSE, rec |-> 0, msg |-> 0, id |-> 0,
                         res |-> "none"])

\* process_message offering the entry to the batcher first and giving up on
\* a try_add error, before metrics and broadcast
ProcessDeliver_EnqueueFirst(c) ==
    /\ UNCHANGED notSysVars
    /\ \E k \in DOMAIN conns[c].pending :
         LET m == conns[c].pending[k]
             full == TrySend(queue) # "Ok"
         IN /\ TryAddRecord
            /\ IF full THEN UNCHANGED << metVars, bcVars >>
                       ELSE RecordLevel(m.level) /\ SenderSend
            /\ processed' = Append(processed,
                  [conn |-> c, data |-> m.data, off |-> m.off, via |-> m.via,
                   parsed |-> TRUE,
                   rec |-> IF full THEN 0 ELSE Len(recorded) + 1,
                   msg |-> IF full THEN 0 ELSE published + 1, id |-> calls + 1,
                   res |-> TrySend(queue)])
            /\ conns' = [conns EXCEPT ![c].pending =
                  SubSeq(@, 1, k - 1) \o SubSeq(@, k + 1, Len(@))]

\* the rest of process_message once record_log_by_level has the tracker:
\* the entry is recorded, broadcast and offered to the batcher with try_add,
\* whose error is only logged
ProcessDeliver(c) ==
    /\ UNCHANGED notSysVars
    /\ \E k \in DOMAIN conns[c].pending :
         LET m == conns[c].pending[k]
         IN /\ RecordLevel(m.level)
            /\ SenderSend
            /\ TryAddRecord
            /\ processed' = Append(processed,
                  [conn |-> c, data |-> m.data, off |-> m.off, via |-> m.via,
                   parsed |-> TRUE, rec |-> Len(recorded) + 1,
                   msg |-> published + 1, id |-> calls + 1,
                   res |-> TrySend(queue)])
            /\ conns' = [conns EXCEPT ![c].pending =
                  SubSeq(@, 1, k - 1) \o SubSeq(@, k + 1, Len(@))]

\* a step of a handler that processes no message
NoMessage == UNCHANGED << batVars, metVars, bcVars, processed >>

\* handle_connection: the first byte is read; no byte means the peer closed,
\* otherwise the byte decides the framing and goes to one of the two handlers
HandleConnection(c) ==
    /\ UNCHANGED notSysVars
    /\ conns[c].pc = "accepted"
    /\ IF conns[c].wire = << >>
          THEN conns' = [conns EXCEPT ![c].pc = "closed"]
          ELSE LET first == Head(conns[c].wire)
               IN conns' = [conns EXCEPT
                     ![c].wire = Tail(@),
                     ![c].buffer = << first >>,
                     ![c].framing = IF UseOctetCounting(first)
                                       THEN "octet" ELSE "newline",
                     ![c].pc = IF UseOctetCounting(first)
                                  THEN "octet_read" ELSE "newline_first"]
    /\ NoMessage

\* a read whose bytes replace what the buffer holds
OctetRead_ReplaceBuffer(c) ==
    /\ UNCHANGED notSysVars
    /\ conns[c].pc = "octet_read"
    /\ ~HandlerBlocked(c)
    /\ IF conns[c].wire = << >>
          THEN conns' = [conns EXCEPT ![c].pc = "closed"]
          ELSE \E n \in 1..MaxChunk :
                 /\ n <= Len(conns[c].wire)
                 /\ conns' = [conns EXCEPT
                       ![c].buffer = SubSeq(conns[c].wire, 1, n),
                       ![c].wire = SubSeq(@, n + 1, Len(@)),
                       ![c].pc = "octet_parse"]
    /\ NoMessage

\* handle_octet_counted, the read at the top of the loop: end of stream ends
\* the handler, otherwise the bytes read are appended to the buffer
OctetRead(c) ==
    /\ UNCHANGED notSysVars
    /\ conns[c].pc = "octet_read"
    /\ ~HandlerBlocked(c)
    /\ IF conns[c].wire = << >>
          THEN conns' = [conns EXCEPT ![c].pc = "closed"]
          ELSE \E n \in 1..MaxChunk :
                 /\ n <= Len(conns[c].wire)
                 /\ conns' = [conns EXCEPT
                       ![c].buffer = @ \o SubSeq(conns[c].wire, 1, n),
                       ![c].wire = SubSeq(@, n + 1, Len(@)),
                       ![c].pc = "octet_parse"]
    /\ NoMessage

\* handle_octet_counted, one turn of the inner while loop: a complete frame at
\* the front of the buffer is processed and drained; an empty buffer or an
\* Err of parse_octet_counted sends the handler back to the read
OctetParse(c) ==
    /\ UNCHANGED notSysVars
    /\ conns[c].pc = "octet_parse"
    /\ ~HandlerBlocked(c)
    /\ LET r == ParseOctetCounted(conns[c].buffer)
       IN IF conns[c].buffer # << >> /\ r.ok
             THEN ProcessMessage(c, r.msg,
                     Offset(c, conns[c].wire) - Len(conns[c].buffer) + r.msg_start,
                     "octet",
                     [conns[c] EXCEPT !.buffer = SubSeq(@, r.end_pos + 1, Len(@))])
             ELSE /\ conns' = [conns EXCEPT ![c].pc = "octet_read"]
                  /\ NoMessage

\* handle_newline_framed before its loop: the first line is the first byte
\* and what read_line returns; it is processed unless it is blank
NewlineFirst(c) ==
    /\ UNCHANGED notSysVars
    /\ conns[c].pc = "newline_first"
    /\ LET remaining == ReadLine(conns[c].wire)
           line == conns[c].buffer \o remaining
           next == [conns[c] EXCEPT
                       !.wire = SubSeq(@, Len(remaining) + 1, Len(@)),
                       !.buffer = << >>,
                       !.pc = "newline_loop"]
       IN IF Trim(line) # << >>
             THEN ProcessMessage(c, Trim(line),
                     Offset(c, conns[c].wire) - 1 + LeadingWhitespace(line),
                     "newline", next)
             ELSE /\ conns' = [conns EXCEPT ![c] = next]
                  /\ NoMessage

\* handle_newline_framed, one turn of the loop: read_line returns nothing at
\* end of stream, which ends the handler; a line that is not blank is
\* processed
NewlineRead(c) ==
    /\ UNCHANGED notSysVars
    /\ conns[c].pc = "newline_loop"
    /\ ~HandlerBlocked(c)
    /\ LET line == ReadLine(conns[c].wire)
           next == [conns[c] EXCEPT !.wire = SubSeq(@, Len(line) + 1, Len(@))]
       IN IF line = << >>
             THEN /\ conns' = [conns EXCEPT ![c].pc = "closed"]
                  /\ NoMessage
             ELSE IF Trim(line) # << >>
                     THEN ProcessMessage(c, Trim(line),
                             Offset(c, conns[c].wire) + LeadingWhitespace(line),
                             "newline", next)
                     ELSE /\ conns' = [conns EXCEPT ![c] = next]
                          /\ NoMessage

\* a read of the stream fails (the `?` of handle_connection and of the first
\* read_line, the Err arms of the two loops): the handler ends
ReadError(c) ==
    /\ UNCHANGED notSysVars
    /\ conns[c].pc \in {"accepted", "octet_read", "newline_first", "newline_loop"}
    /\ ~HandlerBlocked(c)
    /\ conns' = [conns EXCEPT ![c].pc = "closed"]
    /\ NoMessage

SysHandleConnection == \E c \in SyslogConns : HandleConnection(c)
SysOctetRead == \E c \in SyslogConns : OctetRead(c)
SysOctetParse == \E c \in SyslogConns : OctetParse(c)
SysNewlineFirst == \E c \in SyslogConns : NewlineFirst(c)
SysNewlineRead == \E c \in SyslogConns : NewlineRead(c)
SysReadError == \E c \in SyslogConns : ReadError(c)
SysProcessDeliver == \E c \in SyslogConns : ProcessDeliver(c)

\* the connection handlers next to the batch processor's recv, which drains
\* the queue
SysNext ==
    \/ SysHandleConnection
    \/ SysOctetRead
    \/ SysOctetParse
    \/ SysNewlineFirst
    \/ SysNewlineRead
    \/ SysReadError
    \/ SysProcessDeliver
    \/ ProcRecv

\* ---- octet-counted streams
\* MSG-LEN SP MSG
OctetFrame(f) == f.len \o << " " >> \o f.msg

\* a message of ten bytes with spaces inside, which trims to "<e"
LongMsg == << "<", "e", " ", "\n", " ", "\n", " ", "\n", " ", "\n" >>

\* sequences of well-formed frames
FramesShort == << [len |-> << "2" >>, msg |-> << "<", "i" >>],
                  [len |-> << "2" >>, msg |-> << "<", "e" >>] >>
FramesLong == << [len |-> << "1", "0" >>, msg |-> LongMsg],
                 [len |-> << "2" >>, msg |-> << "<", "i" >>] >>
FrameLists == { FramesShort, FramesLong }

\* the byte stream of a sequence of frames
StreamOf(fs) == Concat([i \in DOMAIN fs |-> OctetFrame(fs[i])])

\* a well-formed frame, a frame whose length prefix is no decimal number,
\* and a well-formed frame
WireBadLength ==
    << "2", " ", "<", "i" >> \o << "x", "2", " ", "<", "e" >> \o << "2", " ", "<", "i" >>

\* one peer sends an octet-counted stream, the other connects and closes
SysOctetInit ==
    \E w \in { StreamOf(fs) : fs \in FrameLists } \cup { WireBadLength } :
       SysInitWith(w, << >>)

SysOctetNext ==
    \/ SysHandleConnection
    \/ SysOctetRead
    \/ SysOctetParse
    \/ SysReadError
    \/ SysProcessDeliver

\* =========================================================================
\* UDP server and its HMAC validation
\* =========================================================================
\* the length of an HMAC-SHA256 signature: `packet.len() < 32`, `split_at(32)`
SignatureLen == 32

\* A byte has one of four values. The payload << 1 >> stands for the JSON of
\* a log record of level INFO, << 2 >> for one of level ERROR; every other
\* payload is not the JSON of a log record.
Bytes == 0..3

\* the pre-shared secrets a server or a client may hold
Secrets == {1, 2}

RECURSIVE Weigh(_)
Weigh(payload) ==
    IF payload = << >> THEN 0
    ELSE Weigh(SubSeq(payload, 1, Len(payload) - 1))
            + Len(payload) * (payload[Len(payload)] + 1)

\* HmacSha256::new_from_slice(key), update(payload), finalize(): a keyed
\* digest of SignatureLen bytes, a function of the key and of every byte of
\* the payload (a checksum stands for SHA-256)
Hmac(key, payload) ==
    [i \in 1..SignatureLen |-> (key + i * Weigh(payload)) % 4]

\* AuthValidator::sign
Sign(key, payload) == Hmac(key, payload)

\* validate comparing only the first byte of the signature
Validate_FirstByteOnly(key, packet) ==
    IF Len(packet) < SignatureLen
       THEN [ok |-> FALSE, err |-> "PacketTooShort", payload |-> << >>]
    ELSE LET signature == SubSeq(packet, 1, SignatureLen)
             payload == SubSeq(packet, SignatureLen + 1, Len(packet))
         IN IF signature[1] # Hmac(key, payload)[1]
               THEN [ok |-> FALSE, err |-> "InvalidSignature", payload |-> << >>]
               ELSE [ok |-> TRUE, err |-> "", payload |-> payload]

\* AuthValidator::validate (new_from_slice takes a key of any size, so
\* InvalidKey is never returned)
Validate(key, packet) ==
    IF Len(packet) < SignatureLen
       THEN [ok |-> FALSE, err |-> "PacketTooShort", payload |-> << >>]
    ELSE LET signature == SubSeq(packet, 1, SignatureLen)
             payload == SubSeq(packet, SignatureLen + 1, Len(packet))
             expected == Hmac(key, payload)
         IN IF signature # expected
               THEN [ok |-> FALSE, err |-> "InvalidSignature", payload |-> << >>]
               ELSE [ok |-> TRUE, err |-> "", payload |-> payload]

\* parse_log_payload
ParseLogPayload(payload) ==
    IF payload = << >> THEN [ok |-> FALSE, err |-> "EmptyPayload", level |-> ""]
    ELSE IF payload = << 1 >> THEN [ok |-> TRUE, err |-> "", level |-> "INFO"]
    ELSE IF payload = << 2 >> THEN [ok |-> TRUE, err |-> "", level |-> "ERROR"]
    ELSE [ok |-> FALSE, err |-> "InvalidJson", level |-> ""]

\* the payloads clients send
Payloads == { << >>, << 1 >>, << 2 >>, << 3 >> }

\* packet with byte k replaced by another value
Tamper(packet, k) == [packet EXCEPT ![k] = (@ + 1) % 4]

\* the datagrams that may arrive at a server holding `key`: signed with
\* either secret, with one byte of the signature or of the payload changed,
\* with an all-zero signature, and cut short
Packets(key) ==
    { Sign(k, p) \o p : k \in Secrets, p \in Payloads }
    \cup { Tamper(Sign(key, << 1 >>) \o << 1 >>, k) : k \in {1, SignatureLen, SignatureLen + 1} }
    \cup { [i \in 1..SignatureLen |-> 0] \o << 1 >> }
    \cup { SubSeq(Sign(key, << 1 >>) \o << 1 >>, 1, n) : n \in {0, 1, SignatureLen - 1} }

UdpInitWith(key) ==
    /\ secret = key
    /\ served = << >>
    /\ tasks = << >>
    /\ udp_store = << >>

\* UdpServer::new
UdpInit == \E key \in Secrets : UdpInitWith(key)

\* the UDP server as the other specifications leave it
UdpParked == UdpInitWith(1)

\* the nested match of run: a task is spawned for a datagram whose
\* validation and whose parse both returned Ok
Accepted_AnyParsed(v, p) == p.ok

Accepted(v, p) == v.ok /\ p.ok

\* UdpServer::run, one turn of the loop with recv_from returning a datagram:
\* a failed validation or a failed parse is only logged; otherwise the task
\* that records, broadcasts and stores the entry is spawned
UdpRecv ==
    /\ UNCHANGED notUdpVars
    /\ Len(served) < MaxDatagrams
    /\ \E packet \in Packets(secret) :
         LET v == Validate(secret, packet)
             p == ParseLogPayload(SubSeq(packet, SignatureLen + 1, Len(packet)))
             res == IF ~v.ok THEN v.err ELSE IF ~p.ok THEN p.err ELSE "Ok"
         IN /\ served' = Append(served,
                  [packet |-> packet, res |-> res, payload |-> v.payload])
            /\ tasks' = IF Accepted(v, p)
                           THEN Append(tasks, [dg |-> Len(served) + 1,
                                               level |-> p.level,
                                               stage |-> "spawned"])
                           ELSE tasks
    /\ UNCHANGED << secret, udp_store, metVars, bcVars >>

\* UdpServer::run, one turn of the loop with recv_from returning Err
UdpRecvError ==
    /\ UNCHANGED notUdpVars
    /\ Len(served) < MaxDatagrams
    /\ served' = Append(served, [packet |-> << >>, res |-> "RecvError",
                                 payload |-> << >>])
    /\ UNCHANGED << secret, tasks, udp_store, metVars, bcVars >>

\* the spawned task up to its second await: record_log_by_level, then
\* broadcast_log
UdpTaskRecord(t) ==
    /\ UNCHANGED notUdpVars
    /\ tasks[t].stage = "spawned"
    /\ RecordLevel(tasks[t].level)
    /\ SenderSend
    /\ tasks' = [tasks EXCEPT ![t].stage = "recorded"]
    /\ UNCHANGED << secret, served, udp_store >>

\* the spawned task from insert_log on: the entry is written, or the Err of
\* insert_log is logged
UdpTaskInsert(t) ==
    /\ UNCHANGED notUdpVars
    /\ tasks[t].stage = "recorded"
    /\ \E ok \in BOOLEAN :
         /\ udp_store' = IF ok THEN Append(udp_store, tasks[t].dg) ELSE udp_store
         /\ tasks' = [tasks EXCEPT ![t].stage = IF ok THEN "stored" ELSE "failed"]
    /\ UNCHANGED << secret, served, metVars, bcVars >>

UdpRecord == \E t \in DOMAIN tasks : UdpTaskRecord(t)
UdpInsert == \E t \in DOMAIN tasks : UdpTaskInsert(t)

UdpNext ==
    \/ UdpRecv
    \/ UdpRecvError
    \/ UdpRecord
    \/ UdpInsert

\* =========================================================================
\* Conversions of one input
\* =========================================================================
\* what `call.output` holds before the function was applied
NotCalled == [ok |-> FALSE, err |-> "not called"]

\* no conversion is called
CallParked == call = [fn |-> "none", input |-> << >>, done |-> FALSE,
                      output |-> NotCalled]

\* ---- parse_syslog: the PRI part
\* the characters a PRI text is made of here: digits, signs and a letter
PriChars == Digits \cup {"+", "-", "x"}

RECURSIVE Texts(_, _)
Texts(chars, n) ==
    IF n = 0 THEN { << >> }
    ELSE LET shorter == Texts(chars, n - 1)
         IN shorter \cup { Append(t, c) : t \in { t \in shorter : Len(t) = n - 1 },
                                          c \in chars }

\* what may stand between the < and the first > of a message
PriTexts == Texts(PriChars, MaxPriLen)

\* u8::MAX
U8Max == 255

\* str::parse::<u8>: an optional + and at least one digit, no other
\* character, a value of at most u8::MAX
ParseU8(text) ==
    LET digits == IF text # << >> /\ Head(text) = "+" THEN Tail(text) ELSE text
    IN IF digits = << >> \/ \E i \in DOMAIN digits : ~IsAsciiDigit(digits[i])
          THEN [ok |-> FALSE, value |-> 0]
       ELSE IF ParseUsize(digits) > U8Max THEN [ok |-> FALSE, value |-> 0]
       ELSE [ok |-> TRUE, value |-> ParseUsize(digits)]

\* a from_code that knows a facility for every 5-bit code
FacilityFromCode_AnyCode(code) == [some |-> TRUE, facility |-> code]

\* SyslogFacility::from_code: Kern (0) to Local7 (23); the facility is kept
\* as its code
FacilityFromCode(code) ==
    IF code <= 23 THEN [some |-> TRUE, facility |-> code]
                  ELSE [some |-> FALSE, facility |-> 0]

\* SyslogSeverity::from_code: Emergency (0) to Debug (7)
SeverityFromCode(code) ==
    IF code <= 7 THEN [some |-> TRUE, severity |-> code]
                 ELSE [some |-> FALSE, severity |-> 0]

\* parse_syslog on "<" pri_str ">" followed by a well-formed rest: the PRI is
\* parsed as u8, pri >> 3 is the facility code and pri & 0x07 the severity
\* code
ParseSyslogPri(pri_str) ==
    LET pri == ParseU8(pri_str)
        facility == FacilityFromCode(pri.value \div 8)
        severity == SeverityFromCode(pri.value % 8)
    IN IF ~pri.ok THEN [ok |-> FALSE, err |-> "Invalid syslog PRI value"]
       ELSE IF ~facility.some THEN [ok |-> FALSE, err |-> "Invalid facility code"]
       ELSE IF ~severity.some THEN [ok |-> FALSE, err |-> "Invalid severity code"]
       ELSE [ok |-> TRUE, err |-> "", facility |-> facility.facility,
             severity |-> severity.severity]

CallParseSyslog ==
    /\ UNCHANGED notCallVars
    /\ call.fn = "parse_syslog"
    /\ ~call.done
    /\ call' = [call EXCEPT !.done = TRUE, !.output = ParseSyslogPri(call.input)]

\* ---- convert_span: times and duration
NanosPerSec == 1000000000
NanosPerMilli == 1000000

\* the start_time_unix_nano and end_time_unix_nano an exporter may send
NanoInputs == {0, 1, 1500000, NanosPerSec + 1}

\* nanos_to_datetime: seconds and nanoseconds of the second (timestamp_opt
\* is Single for every u64 number of nanoseconds)
NanosToDatetime(nanos) ==
    [secs |-> nanos \div NanosPerSec, nsecs |-> nanos % NanosPerSec]

\* a - b in u64 arithmetic for a, b far below 2^64, written as the number
\* wraps * 2^64 + off: the subtraction overflows when a < b, which panics in
\* a build with overflow checks and wraps around in a build without
U64Sub(a, b, overflow_checks) ==
    IF a >= b THEN [panic |-> FALSE, wraps |-> 0, off |-> a - b]
    ELSE IF overflow_checks THEN [panic |-> TRUE, wraps |-> 0, off |-> 0]
    ELSE [panic |-> FALSE, wraps |-> 1, off |-> a - b]

\* convert_span, the fields computed from the two timestamps
ConvertSpan(otlp_span, overflow_checks) ==
    LET diff == U64Sub(otlp_span.end_time_unix_nano,
                       otlp_span.start_time_unix_nano, overflow_checks)
    IN IF diff.panic THEN [ok |-> FALSE, err |-> "panic"]
       ELSE [ok |-> TRUE, err |-> "",
             start_time |-> NanosToDatetime(otlp_span.start_time_unix_nano),
             end_time |-> NanosToDatetime(otlp_span.end_time_unix_nano),
             start_time_unix_nano |-> otlp_span.start_time_unix_nano,
             end_time_unix_nano |-> otlp_span.end_time_unix_nano,
             duration_ms |-> [wraps |-> diff.wraps, num |-> diff.off,
                              den |-> NanosPerMilli]]

CallConvertSpan ==
    /\ UNCHANGED notCallVars
    /\ call.fn = "convert_span"
    /\ ~call.done
    /\ \E overflow_checks \in BOOLEAN :
         call' = [call EXCEPT !.done = TRUE,
                              !.output = ConvertSpan(call.input, overflow_checks)]

\* ---- SerilogLog::into_log_entry
\* an Option is << >> for None and << v >> for Some(v); a string is the
\* sequence of its characters
HexDigits == Digits \cup {"a", "b", "c", "d", "e", "f", "A", "B", "C", "D", "E", "F"}

\* the @tr values of a CLEF event: none, a trace id of 32 hex digits, a short
\* one, one of 32 characters that are no hex digits
TraceIdInputs ==
    { << >>, << [i \in 1..32 |-> IF i % 2 = 0 THEN "a" ELSE "4"] >>,
      << << "a", "b", "c" >> >>, << [i \in 1..32 |-> "x"] >> }

\* the @sp values of a CLEF event
SpanIdInputs == { << >>, << [i \in 1..16 |-> "b"] >>, << << "x" >> >> }

\* the SerilogLog values serde_json::from_slice may hand to into_log_entry
SerilogInputs ==
    [trace_id : TraceIdInputs, span_id : SpanIdInputs,
     source_context : { << >>, << "App" >> }, application : { << >>, << "Svc" >> },
     message : { << >>, << "User logged in" >> },
     message_template : { << >>, << "User {Name} logged in" >> }]

\* SerilogLog::into_log_entry
IntoLogEntry(serilog) ==
    [ok |-> TRUE, err |-> "",
     service |-> IF serilog.source_context # << >> THEN serilog.source_context[1]
                 ELSE IF serilog.application # << >> THEN serilog.application[1]
                 ELSE "unknown",
     message |-> IF serilog.message # << >> THEN serilog.message[1]
                 ELSE IF serilog.message_template # << >> THEN serilog.message_template[1]
                 ELSE "",
     message_template |-> serilog.message_template,
     trace_id |-> serilog.trace_id,
     span_id |-> serilog.span_id]

CallIntoLogEntry ==
    /\ UNCHANGED notCallVars
    /\ call.fn = "into_log_entry"
    /\ ~call.done
    /\ call' = [call EXCEPT !.done = TRUE, !.output = IntoLogEntry(call.input)]

\* ---- GelfMessage::to_log_level and SyslogSeverity::to_log_level
\* GelfMessage::to_log_level on the u8 `level` of a GELF message
GelfToLogLevel(level) ==
    CASE level \in {0, 1, 2} -> "FATAL"
      [] level = 3 -> "ERROR"
      [] level = 4 -> "WARN"
      [] level \in {5, 6} -> "INFO"
      [] level = 7 -> "DEBUG"
      [] OTHER -> "INFO"

\* SyslogSeverity::to_log_level on a severity kept as its code
SeverityToLogLevel(severity) ==
    CASE severity \in {0, 1} -> "FATAL"
      [] severity \in {2, 3} -> "ERROR"
      [] severity = 4 -> "WARN"
      [] severity \in {5, 6} -> "INFO"
      [] severity = 7 -> "DEBUG"

CallGelfToLogLevel ==
    /\ UNCHANGED notCallVars
    /\ call.fn = "to_log_level"
    /\ ~call.done
    /\ call' = [call EXCEPT !.done = TRUE,
                            !.output = [ok |-> TRUE, err |-> "",
                                        level |-> GelfToLogLevel(call.input)]]

\* ---- parse_octet_counted for every declared length
\* usize::MAX of a 64-bit target, 2^64 - 1, in decimal
UsizeMaxDigits ==
    << "1", "8", "4", "4", "6", "7", "4", "4", "0", "7",
       "3", "7", "0", "9", "5", "5", "1", "6", "1", "5" >>

RECURSIVE StripZeros(_)
StripZeros(ds) ==
    IF ds # << >> /\ Head(ds) = "0" THEN StripZeros(Tail(ds)) ELSE ds

\* a <= b for two decimal numbers of the same number of digits
RECURSIVE LeqDigits(_, _)
LeqDigits(a, b) ==
    IF a = << >> THEN TRUE
    ELSE IF DigitValue(Head(a)) # DigitValue(Head(b))
            THEN DigitValue(Head(a)) < DigitValue(Head(b))
    ELSE LeqDigits(Tail(a), Tail(b))

\* a - b for two decimal numbers of the same number of digits, a >= b
RECURSIVE DiffDigits(_, _)
DiffDigits(a, b) ==
    IF a = << >> THEN 0
    ELSE 10 * DiffDigits(SubSeq(a, 1, Len(a) - 1), SubSeq(b, 1, Len(b) - 1))
         + DigitValue(a[Len(a)]) - DigitValue(b[Len(b)])

\* str::parse::<usize>: an optional +, then digits; a number above
\* usize::MAX is an error. The value is written wraps * 2^64 + off: a small
\* number (fewer than half the digits of usize::MAX) is 0 * 2^64 + n, a
\* number close to usize::MAX is 1 * 2^64 - k.
ParseUsizeWide(text) ==
    LET digits == IF text # << >> /\ Head(text) = "+" THEN Tail(text) ELSE text
        ds == StripZeros(digits)
        width == Len(UsizeMaxDigits)
        err == [ok |-> FALSE, value |-> [wraps |-> 0, off |-> 0]]
    IN IF digits = << >> \/ \E i \in DOMAIN digits : ~IsAsciiDigit(digits[i])
          THEN err
       ELSE IF Len(ds) > width \/ (Len(ds) = width /\ ~LeqDigits(ds, UsizeMaxDigits))
          THEN err
       ELSE IF Len(ds) < width \div 2
          THEN [ok |-> TRUE, value |-> [wraps |-> 0, off |-> ParseUsize(ds)]]
       ELSE [ok |-> TRUE,
             value |-> [wraps |-> 1,
                        off |-> 0 - 1 - DiffDigits(UsizeMaxDigits,
                                   [i \in 1..(width - Len(ds)) |-> "0"] \o ds)]]

\* a + b in usize arithmetic for a small a: past usize::MAX the addition
\* panics in a build with overflow checks and wraps around in one without
UsizeAdd(a, b, overflow_checks) ==
    LET sum == [wraps |-> b.wraps, off |-> b.off + a]
    IN IF sum.wraps = 0 \/ sum.off < 0 THEN [panic |-> FALSE, value |-> sum]
       ELSE IF overflow_checks THEN [panic |-> TRUE, value |-> sum]
       ELSE [panic |-> FALSE, value |-> [wraps |-> 0, off |-> sum.off]]

\* parse_octet_counted with the arithmetic of usize
ParseOctetCountedWide(data, overflow_checks) ==
    LET spaces == { i \in DOMAIN data : data[i] = " " }
        err == [ok |-> FALSE, err |-> "Err", end_pos |-> 0, msg |-> << >>]
        panic == [ok |-> FALSE, err |-> "panic", end_pos |-> 0, msg |-> << >>]
    IN IF spaces = {} THEN err
       ELSE LET msg_start == CHOOSE i \in spaces : \A j \in spaces : i <= j
                msg_len == ParseUsizeWide(SubSeq(data, 1, msg_start - 1))
                msg_end == UsizeAdd(msg_start, msg_len.value, overflow_checks)
            IN IF ~msg_len.ok THEN err
               ELSE IF msg_end.panic THEN panic
               ELSE IF msg_end.value.wraps = 1 \/ msg_end.value.off > Len(data)
                  THEN err
               ELSE IF msg_start > msg_end.value.off THEN panic
               ELSE [ok |-> TRUE, err |-> "", end_pos |-> msg_end.value.off,
                     msg |-> SubSeq(data, msg_start + 1, msg_end.value.off)]

\* usize::MAX - 21 and usize::MAX + 1 in decimal
NearMaxDigits == SubSeq(UsizeMaxDigits, 1, 17) \o << "5", "9", "4" >>
PastMaxDigits == SubSeq(UsizeMaxDigits, 1, 17) \o << "6", "1", "6" >>

\* the buffers a peer may make the handler pass to parse_octet_counted
OctetBuffers ==
    { << "2", " ", "<", "i" >>, << "2", " ", "<" >>, << "2", " ", "<", "i", "2" >>,
      << "0", "2", " ", "<", "i" >>, << "+", "2", " ", "<", "i" >>,
      << "0", " " >>, << "2" >>, << "x", " ", "<", "i" >>, << "2", "x", " ", "<", "i" >>,
      << " ", "<", "i" >>,
      UsizeMaxDigits \o << " ", "<", "i" >>,
      NearMaxDigits \o << " ", "<", "i" >>,
      PastMaxDigits \o << " ", "<", "i" >>,
      << "0" >> \o UsizeMaxDigits \o << " " >> }

CallParseOctetCounted ==
    /\ UNCHANGED notCallVars
    /\ call.fn = "parse_octet_counted"
    /\ ~call.done
    /\ \E overflow_checks \in BOOLEAN :
         call' = [call EXCEPT !.done = TRUE,
                     !.output = ParseOctetCountedWide(call.input, overflow_checks)]

\* the calls of a run: one function and one input for it
Calls ==
    { [fn |-> "parse_syslog", input |-> t, done |-> FALSE, output |-> NotCalled] :
        t \in PriTexts }
    \cup { [fn |-> "convert_span",
            input |-> [start_time_unix_nano |-> st, end_time_unix_nano |-> en],
            done |-> FALSE, output |-> NotCalled] : st \in NanoInputs, en \in NanoInputs }
    \cup { [fn |-> "into_log_entry", input |-> sl, done |-> FALSE,
            output |-> NotCalled] : sl \in SerilogInputs }
    \cup { [fn |-> "to_log_level", input |-> level, done |-> FALSE,
            output |-> NotCalled] : level \in 0..U8Max }
    \cup { [fn |-> "parse_octet_counted", input |-> data, done |-> FALSE,
            output |-> NotCalled] : data \in OctetBuffers }

CallInit == call \in Calls

CallNext ==
    \/ CallParseSyslog
    \/ CallConvertSpan
    \/ CallIntoLogEntry
    \/ CallGelfToLogLevel
    \/ CallParseOctetCounted

\* =========================================================================
\* Specifications
\* =========================================================================
InitBatcher == BatInit /\ MetInit /\ BcParked /\ AlParked /\ TrInit /\ SysParked /\ UdpParked /\ CallParked

SpecBatcher == InitBatcher /\ [][BatNext]_vars

\* The scheduler keeps polling the processor task: a ready recv branch is
\* eventually taken (the timer branch is ready only once per flush_interval).
FairSpecBatcher ==
    SpecBatcher /\ WF_vars(ProcRecv) /\ WF_vars(ProcClosed)

InitMetrics == MetInit /\ BatParked /\ BcParked /\ AlParked /\ TrInit /\ SysParked /\ UdpParked /\ CallParked

SpecMetrics == InitMetrics /\ [][MetNext]_vars

SpecSpanMetrics == InitMetrics /\ [][SpanMetNext]_vars

SpecMetricsTasks == InitMetrics /\ [][TaskMetNext]_vars

BcBroadcast == published < MaxPublish /\ BroadcastLog
BcSubscribe == \E s \in SubIds : Subscribe(s)
BcRecv == \E s \in SubIds : HandlerRecv(s)
BcDisconnect == \E s \in SubIds : Disconnect(s)

BcNext ==
    \/ BcBroadcast
    \/ BcSubscribe
    \/ BcRecv
    \/ BcDisconnect

InitBroadcast == BcInit /\ BatParked /\ MetInit /\ AlParked /\ TrInit /\ SysParked /\ UdpParked /\ CallParked

SpecBroadcast == InitBroadcast /\ [][BcNext]_vars

\* The slow subscriber of main's broadcaster: one handler subscribes, up to
\* SlowPublishes messages are published while it receives nothing, then it
\* calls recv up to SlowRecvs times.
SlowSubscribe == published = 0 /\ Subscribe(1)

SlowPublish ==
    /\ subs[1].state = "active"
    /\ frames[1] = << >>
    /\ published < SlowPublishes
    /\ BroadcastLog

SlowRecv == Len(frames[1]) < SlowRecvs /\ HandlerRecv(1)

SlowNext ==
    \/ SlowSubscribe
    \/ SlowPublish
    \/ SlowRecv

InitSlowSubscriber ==
    BcInitWith(ConfiguredCapacity) /\ BatParked /\ MetInit /\ AlParked /\ TrInit /\ SysParked
    /\ UdpParked /\ CallParked

SpecSlowSubscriber == InitSlowSubscriber /\ [][SlowNext]_vars

InitAlerts == AlInit /\ MetInit /\ BatParked /\ BcParked /\ TrInit /\ SysParked /\ UdpParked /\ CallParked

SpecAlerts == InitAlerts /\ [][AlNext]_vars

InitAlertsRestarted ==
    AlRestarted /\ MetInit /\ BatParked /\ BcParked /\ TrInit /\ SysParked
    /\ UdpParked /\ CallParked

SpecAlertsRestarted == InitAlertsRestarted /\ [][AlNext]_vars

InitAlertsHang ==
    AlWebhookFirst /\ MetInit /\ BatParked /\ BcParked /\ TrInit /\ SysParked
    /\ UdpParked /\ CallParked

SpecAlertsHang == InitAlertsHang /\ [][AlHangNext]_vars

InitTraces == TrInit /\ BatParked /\ MetInit /\ BcParked /\ AlParked /\ SysParked /\ UdpParked /\ CallParked

SpecTraces == InitTraces /\ [][TrNext]_vars

InitSyslog == SysInit /\ BatInit /\ MetInit /\ BcParked /\ AlParked /\ TrInit /\ UdpParked /\ CallParked

SpecSyslog == InitSyslog /\ [][SysNext]_vars

InitSyslogOctet ==
    SysOctetInit /\ BatInit /\ MetInit /\ BcParked /\ AlParked /\ TrInit /\ UdpParked
    /\ CallParked

SpecSyslogOctet == InitSyslogOctet /\ [][SysOctetNext]_vars

InitUdp == UdpInit /\ BatParked /\ MetInit /\ BcParked /\ AlParked /\ TrInit /\ SysParked /\ CallParked

SpecUdp == InitUdp /\ [][UdpNext]_vars

InitConversions ==
    CallInit /\ BatParked /\ MetInit /\ BcParked /\ AlParked /\ TrInit /\ SysParked
    /\ UdpParked

SpecConversions == InitConversions /\ [][CallNext]_vars

\* ------------------------------------------------------ batcher properties
\* every record handed to insert_logs so far, in call order
Handed == Concat([i \in DOMAIN inserted |-> inserted[i].logs])

\* this step called insert_logs
Flushed == Len(inserted') = Len(inserted) + 1

\* C1: once every handle is dropped and the processor has exited, insert_logs
\* has been handed exactly the records whose enqueue returned Ok, each exactly
\* once, and every batch lists its records in enqueue order (record ids are
\* assigned in enqueue order).
C1_DrainedExactlyOnceInOrder ==
    pc = "done" =>
        /\ Len(Handed) = Len(accepted)
        /\ Range(Handed) = Range(accepted)
        /\ NoDup(Handed)
        /\ \A i \in DOMAIN inserted : Increasing(inserted[i].logs)

C1_Witness ==
    /\ pc = "done"
    /\ Len(accepted) >= 3
    /\ Len(inserted) >= 2
    /\ \E i \in DOMAIN inserted : Len(inserted[i].logs) >= 2

\* C6: try_add is always a single enabled step for a caller holding a handle
\* (it never waits); while the processor is alive it returns Ok and appends
\* the record when fewer than channel_buffer_size records are queued, and
\* returns Full with the queue unchanged when channel_buffer_size are queued.
C6_TryAddNonBlocking ==
    /\ []((handles > 0 /\ calls < MaxEnq) => ENABLED TryAdd)
    /\ [][ (TryAdd /\ pc = "running") =>
             IF Len(queue) < channel_buffer_size
                THEN /\ lastAdd'.res = "Ok"
                     /\ queue' = Append(queue, lastAdd'.id)
                ELSE /\ Len(queue) = channel_buffer_size
                     /\ lastAdd'.res = "Full"
                     /\ queue' = queue ]_vars

C6_Witness ==
    /\ pc = "running"
    /\ lastAdd.op = "try_add"
    /\ lastAdd.res = "Full"
    /\ Len(queue) = channel_buffer_size
    /\ channel_buffer_size >= 2

\* the consequences C7 draws: the buffer never exceeds max_batch_size, a tick
\* on an empty buffer writes nothing, and a tick leaves no received record
\* unflushed
C7_Consequences ==
    /\ [](Len(batch) <= max_batch_size)
    /\ [][ (ProcTick /\ batch = << >>) => UNCHANGED << inserted, store >> ]_vars
    /\ [][ ProcTick => batch' = << >> ]_vars
    /\ [][ Flushed => /\ inserted'[Len(inserted')].logs # << >>
                      /\ batch' = << >> ]_vars

\* C7 as stated: insert_logs is called exactly when (a) a received record
\* makes the buffer reach max_batch_size or (b) a tick finds the buffer
\* non-empty.
C7_FlushOnlySizeOrTick ==
    /\ C7_Consequences
    /\ [][ Flushed <=> \/ (ProcRecv /\ Len(batch) + 1 >= max_batch_size)
                       \/ (ProcTick /\ batch # << >>) ]_vars

\* C7 amended: insert_logs is called exactly when (a) a received record makes
\* the buffer reach max_batch_size, (b) a tick finds the buffer non-empty, or
\* (c) the channel is closed while the buffer is non-empty.
C7_FlushSizeTickOrClose ==
    /\ C7_Consequences
    /\ [][ Flushed <=> \/ (ProcRecv /\ Len(batch) + 1 >= max_batch_size)
                       \/ (ProcTick /\ batch # << >>)
                       \/ (ProcClosed /\ batch # << >>) ]_vars

C7_Witness ==
    /\ lastProc = "tick_flush_ok"
    /\ \E i \in DOMAIN inserted : Len(inserted[i].logs) = max_batch_size
    /\ \E i \in DOMAIN inserted : Len(inserted[i].logs) < max_batch_size
    /\ max_batch_size >= 2

\* C8: after the last handle is dropped the processor drains the queue,
\* flushes the non-empty remainder in its closing step and only then
\* terminates; every accepted record has been handed to insert_logs by then,
\* and termination does follow.
C8_ShutdownDrains ==
    /\ [](pc = "done" => /\ handles = 0
                         /\ queue = << >>
                         /\ batch = << >>
                         /\ Range(accepted) \subseteq Range(Handed))
    /\ [][ ProcClosed =>
             /\ queue = << >>
             /\ batch # << >> => /\ Flushed
                                 /\ inserted'[Len(inserted')].logs = batch ]_vars
    /\ (handles = 0) ~> (pc = "done")

C8_Witness ==
    /\ pc = "done"
    /\ lastProc \in {"close_flush_ok", "close_flush_err"}
    /\ Len(accepted) >= 2

\* C9: a batch whose insert_logs failed is gone: the buffer is empty after
\* the failed flush, the processor goes on (it stops only on shutdown), no
\* record of any batch is handed to insert_logs again, and the store never
\* holds a record twice.
C9_FailedBatchDropped ==
    /\ [][ (Flushed /\ ~inserted'[Len(inserted')].ok) =>
             /\ batch' = << >>
             /\ (ProcRecv \/ ProcTick) => pc' = "running" ]_vars
    /\ [](NoDup(Handed))
    /\ [](NoDup(store))
    /\ [](Range(store) \subseteq Range(Handed))

C9_Witness ==
    /\ pc = "running"
    /\ \E i, j \in DOMAIN inserted :
         /\ i < j
         /\ ~inserted[i].ok
         /\ inserted[j].ok
    /\ store # << >>

\* ------------------------------------------------------ metrics properties
\* the record calls made so far whose second lies in [t - 60, t]
InWindow(t) ==
    { i \in DOMAIN recorded :
        /\ recorded[i].sec >= t - METRICS_WINDOW_SECS
        /\ recorded[i].sec <= t }

\* C4: the snapshot get_metrics returns at second t counts exactly the record
\* calls whose second lies in [t - 60, t], in total and per level: none of the
\* window is missing, none outside it is counted, none is counted twice.
C4_SnapshotIsWindow ==
    [][ GetMetrics =>
          LET w == InWindow(clock)
              m == snapshot'
          IN /\ m.timestamp = clock
             /\ m.logs_last_minute = Cardinality(w)
             /\ \A l \in Levels :
                  m.logs_by_level[l] =
                      Cardinality({ i \in w : recorded[i].level = l })
             /\ m.errors_last_minute =
                  Cardinality({ i \in w : recorded[i].level \in {"ERROR", "FATAL"} })
      ]_vars

\* a snapshot taken with a stale bucket still in the deque (no record call
\* evicted it) and a fresh one inside the window
C4_Witness ==
    /\ snapshot.valid
    /\ snapshot.timestamp = clock
    /\ Len(buckets) >= 2
    /\ buckets[1].timestamp < clock - METRICS_WINDOW_SECS
    /\ \E i \in DOMAIN recorded : recorded[i].sec = clock - METRICS_WINDOW_SECS
    /\ snapshot.logs_last_minute >= 1
    /\ snapshot.logs_last_minute < Len(recorded)

\* C5: in every snapshot errors_last_minute <= logs_last_minute, error_rate is
\* a number in [0, 1], error_rate = errors_last_minute / logs_last_minute when
\* logs_last_minute > 0 and error_rate = 0 when logs_last_minute = 0.
C5_ErrorRate ==
    snapshot.valid =>
        LET r == snapshot.error_rate
        IN /\ snapshot.errors_last_minute <= snapshot.logs_last_minute
           /\ r.den > 0
           /\ 0 <= r.num
           /\ r.num <= r.den
           /\ snapshot.logs_last_minute > 0 =>
                r.num * snapshot.logs_last_minute =
                    snapshot.errors_last_minute * r.den
           /\ snapshot.logs_last_minute = 0 => r.num = 0

C5_Witness ==
    /\ snapshot.valid
    /\ snapshot.errors_last_minute > 0
    /\ snapshot.errors_last_minute < snapshot.logs_last_minute
    /\ snapshot.logs_last_minute < Len(recorded)

\* a snapshot of an empty window: error_rate is 0
C5_WitnessEmpty ==
    /\ snapshot.valid
    /\ snapshot.logs_last_minute = 0
    /\ recorded # << >>

\* -------------------------------------------------- broadcaster properties
\* Where a receiver that started at position pos stands after the frames fs,
\* when every message frame carries the value stored at the cursor and every
\* Lagged(n) frame stands for exactly n >= 1 skipped positions; -1 when the
\* frames are not of that shape.
RECURSIVE EndPos(_, _)
EndPos(fs, pos) ==
    IF pos < 0 THEN -1
    ELSE IF fs = << >> THEN pos
    ELSE LET f == Head(fs)
         IN IF f.kind = "msg"
               THEN IF pos < Len(posLog) /\ posLog[pos + 1] = f.val
                       THEN EndPos(Tail(fs), pos + 1)
                       ELSE -1
               ELSE IF f.val >= 1 /\ pos + f.val <= Len(posLog)
                       THEN EndPos(Tail(fs), pos + f.val)
                       ELSE -1

\* the message ids among the frames, in delivery order
RECURSIVE MsgIds(_)
MsgIds(fs) ==
    IF fs = << >> THEN << >>
    ELSE IF Head(fs).kind = "msg"
            THEN << Head(fs).val >> \o MsgIds(Tail(fs))
            ELSE MsgIds(Tail(fs))

\* the oldest position the ring still holds
OldestPos ==
    CHOOSE p \in { buffer[i].pos : i \in DOMAIN buffer } :
        \A i \in DOMAIN buffer : p <= buffer[i].pos

C10_SubscriberOrder ==
    \A s \in SubIds :
        /\ EndPos(frames[s], subs[s].start) = subs[s].next
        /\ Increasing(MsgIds(frames[s]))
        /\ \A k \in DOMAIN frames[s] :
             frames[s][k].kind = "msg" => frames[s][k].val \in 1..published

C10_Witness ==
    /\ \E k \in DOMAIN frames[1] :
         /\ k > 1
         /\ k < Len(frames[1])
         /\ frames[1][k].kind = "lagged"
         /\ frames[1][k - 1].kind = "msg"
         /\ frames[1][k + 1].kind = "msg"
    /\ frames[2] # << >>
    /\ frames[2] # frames[1]
    /\ subs[2].start > 0

\* ------------------------------------------------------ alert properties
\* the notifications an evaluation step added for rule r
NewlyDispatched(r) ==
    { k \in (Len(dispatched) + 1)..Len(dispatched') : dispatched'[k].rule = r }

\* (a check_alerts call that leaves lastCheck as it was repeats the previous
\* evaluation at the same instant, and the invariant covers it)
\* C2: two notifications of the same rule are never less than cooldown_secs
\* apart (a notification carries the time of the evaluation that fired it),
\* for any sequence of evaluations and any metric values; and an evaluation
\* dispatches exactly one notification for each enabled rule whose condition
\* holds and that did not fire within the last cooldown_secs seconds, and
\* none for any other rule: so of two ticks 15 s apart with the condition
\* holding at both, only the first dispatches.
C2_CooldownRespected ==
    /\ [](\A i, j \in DOMAIN dispatched :
            (i < j /\ dispatched[i].rule = dispatched[j].rule) =>
                dispatched[j].timestamp - dispatched[i].timestamp >= cooldown_secs)
    /\ [][(lastCheck' # lastCheck /\ lastCheck'.result = "ok") =>
            /\ SubSeq(dispatched', 1, Len(dispatched)) = dispatched
            /\ \A r \in RuleIds :
                 LET recent == \E i \in DOMAIN dispatched :
                                  /\ dispatched[i].rule = r
                                  /\ clock - dispatched[i].timestamp < cooldown_secs
                     due == /\ rules[r].enabled
                            /\ ShouldTrigger(rules[r].condition, lastCheck'.metrics)
                            /\ ~recent
                 IN /\ Cardinality(NewlyDispatched(r)) = (IF due THEN 1 ELSE 0)
                    /\ \A k \in NewlyDispatched(r) : dispatched'[k].timestamp = clock]_vars

\* rule 1 fired and was evaluated again 15 s later with its condition
\* holding: that evaluation dispatched nothing for it, so the two evaluations
\* produced exactly one notification
C2_Witness ==
    /\ lastCheck.result = "ok"
    /\ ShouldTrigger(rules[1].condition, lastCheck.metrics)
    /\ \A k \in DOMAIN lastCheck.triggered : lastCheck.triggered[k] # 1
    /\ \E i \in DOMAIN dispatched :
         /\ dispatched[i].rule = 1
         /\ lastCheck.now = dispatched[i].timestamp + 15
    /\ Cardinality({ k \in DOMAIN dispatched : dispatched[k].rule = 1 }) = 1

\* C11: broadcast_log, broadcast_span and broadcast_metrics (one
\* Sender::send whose result is dropped) never block and never report a
\* failure: in every state of the channel, with no subscriber or with every
\* slot of the ring still unread by a slow subscriber, the call is one step
\* that can be taken, and the step changes nothing outside the ring.
C11_BroadcastNeverBlocks ==
    /\ [](ENABLED BroadcastLog)
    /\ [][published' # published =>
            /\ published' = published + 1
            /\ UNCHANGED << notBcVars, capacity, rx_cnt, subs, frames >>
            /\ (rx_cnt = 0 => UNCHANGED << buffer, tail_pos, posLog >>)
            /\ (rx_cnt > 0 => tail_pos' = tail_pos + 1)]_vars

\* a message was published while nobody was subscribed, and later messages
\* overwrote slots that an active subscriber had not read yet
C11_Witness ==
    /\ published > tail_pos
    /\ \E s \in SubIds :
         /\ subs[s].state = "active"
         /\ tail_pos - subs[s].next > RingSize

\* a step that is a completed check_alerts evaluation
Evaluated == lastCheck' # lastCheck /\ lastCheck'.result = "ok"

\* rule r is enabled, its condition holds on the snapshot of this evaluation
\* and its cached last trigger, if any, is at least cooldown_secs old
DueAt(r) ==
    /\ rules[r].enabled
    /\ ShouldTrigger(rules[r].condition, lastCheck'.metrics)
    /\ ~(r \in DOMAIN last_triggers /\ clock - last_triggers[r] < cooldown_secs)

\* the rules that come after rule r in the evaluation order
RulesAfter(r) ==
    { RuleOrder[j] : j \in { j \in DOMAIN RuleOrder :
                               \E i \in DOMAIN RuleOrder : i < j /\ RuleOrder[i] = r } }

\* C12: a rule whose action failed is still treated as fired: it is in the
\* list of triggered rules, its in-memory last-trigger time is the evaluation
\* time (so every notification, delivered or not, is covered by the cooldown
\* entry of its rule), and the rules after it in the same evaluation are
\* still evaluated and fire when they are due.
C12_ActionFailureStillFires ==
    /\ [](\A k \in DOMAIN dispatched :
            /\ dispatched[k].rule \in DOMAIN last_triggers
            /\ last_triggers[dispatched[k].rule] >= dispatched[k].timestamp)
    /\ [][Evaluated =>
            \A r \in RuleIds : \A k \in NewlyDispatched(r) :
                ~dispatched'[k].delivered =>
                    /\ last_triggers'[r] = clock
                    /\ \E i \in DOMAIN lastCheck'.triggered :
                           lastCheck'.triggered[i] = r
                    /\ \A r2 \in RulesAfter(r) :
                           DueAt(r2) => NewlyDispatched(r2) # {}]_vars

\* the action of rule 1 failed, rule 2 fired after it in the same evaluation,
\* and a later evaluation inside the cooldown found the condition of rule 1
\* holding and did not fire it
C12_Witness ==
    /\ \E k \in DOMAIN dispatched :
         /\ k < Len(dispatched)
         /\ dispatched[k].rule = 1
         /\ ~dispatched[k].delivered
         /\ dispatched[k + 1].rule = 2
         /\ dispatched[k + 1].timestamp = dispatched[k].timestamp
         /\ lastCheck.now > dispatched[k].timestamp
         /\ lastCheck.now - dispatched[k].timestamp < cooldown_secs
    /\ lastCheck.result = "ok"
    /\ ShouldTrigger(rules[1].condition, lastCheck.metrics)
    /\ lastCheck.triggered = << >>

\* the notifications dispatched so far for rule r
DispatchedFor(r) == { k \in DOMAIN dispatched : dispatched[k].rule = r }

\* C13: every firing sets the persisted last_triggered to the evaluation
\* time and adds exactly 1 to the persisted trigger_count, together with the
\* in-memory cooldown entry: after any sequence of evaluations the persisted
\* trigger_count of a rule is the number of notifications dispatched for it
\* and its last_triggered is the cached last-trigger time.
C13_TriggerCountMatches ==
    \A r \in RuleIds :
        /\ rules[r].trigger_count = Cardinality(DispatchedFor(r))
        /\ (r \in DOMAIN last_triggers =>
                rules[r].last_triggered = << last_triggers[r] >>)

\* the state of rule r at time `now`: Cooling while its cached last trigger
\* is less than cooldown_secs old, Idle otherwise
RuleState(r, now) ==
    IF r \in DOMAIN last_triggers /\ now - last_triggers[r] < cooldown_secs
       THEN "Cooling" ELSE "Idle"

\* C14: per-rule state machine Idle -> Triggered -> Cooling -> Idle. An
\* evaluation never fires a rule that is Cooling, even when its condition
\* holds; a rule is Idle again as soon as now - last_triggered >= cooldown,
\* and an evaluation that finds an enabled rule Idle with its condition
\* holding fires it and puts it in Cooling from that evaluation time, so a
\* rule is never stuck in Cooling.
C14_RuleStateMachine ==
    [][Evaluated =>
        \A r \in RuleIds :
            /\ (RuleState(r, clock) = "Cooling" =>
                    /\ NewlyDispatched(r) = {}
                    /\ last_triggers'[r] = last_triggers[r])
            /\ ((/\ RuleState(r, clock) = "Idle"
                  /\ rules[r].enabled
                  /\ ShouldTrigger(rules[r].condition, lastCheck'.metrics)) =>
                    /\ NewlyDispatched(r) # {}
                    /\ r \in DOMAIN last_triggers'
                    /\ last_triggers'[r] = clock)
            /\ (r \in DOMAIN last_triggers' =>
                    (clock - last_triggers'[r] >= cooldown_secs <=>
                        (r \in DOMAIN last_triggers /\ NewlyDispatched(r) = {}
                           /\ RuleState(r, clock) = "Idle")))]_vars

\* rule 1 fired, and fired again at the evaluation made exactly cooldown_secs
\* later, the first moment at which it was Idle again
C14_Witness ==
    /\ lastCheck.result = "ok"
    /\ \E i, j \in DispatchedFor(1) :
         /\ dispatched[j].timestamp = dispatched[i].timestamp + cooldown_secs
         /\ lastCheck.now = dispatched[j].timestamp
         /\ last_triggers[1] = dispatched[j].timestamp

\* the value the condition of a rule compares, as a quotient of the counts
\* of snapshot m
ConditionValue(cond, m) ==
    CASE cond.type = "error_rate" ->
            IF m.logs_last_minute > 0
               THEN [num |-> m.errors_last_minute, den |-> m.logs_last_minute]
               ELSE [num |-> 0, den |-> 1]
      [] cond.type = "errors_per_second" ->
            [num |-> m.errors_last_minute, den |-> METRICS_WINDOW_SECS]
      [] cond.type = "logs_per_second" ->
            [num |-> m.logs_last_minute, den |-> METRICS_WINDOW_SECS]
      [] cond.type = "level_count" ->
            [num |-> IF cond.level \in Levels THEN m.logs_by_level[cond.level] ELSE 0,
             den |-> 1]

LaggedStep(s) ==
    /\ Len(frames'[s]) = Len(frames[s]) + 1
    /\ frames'[s][Len(frames'[s])].kind = "lagged"

\* C18: when the recv of a subscriber yields Lagged(n), its handler puts
\* exactly one Error frame carrying n on that subscriber's socket, n being the
\* number of positions its cursor skipped; the subscription stays open with
\* its receiver counted, a later message is ready for it at once, and the
\* cursor, state and frames of every other subscriber are untouched.
C18_LaggedKeepsStream ==
    [][\A s \in SubIds :
        LaggedStep(s) =>
            /\ SubSeq(frames'[s], 1, Len(frames[s])) = frames[s]
            /\ frames'[s][Len(frames'[s])].val = subs'[s].next - subs[s].next
            /\ frames'[s][Len(frames'[s])].val > 0
            /\ subs[s].state = "active"
            /\ subs'[s].state = "active"
            /\ rx_cnt' = rx_cnt
            /\ RecvRef(subs[s].next).kind = "lagged"
            /\ buffer'[subs'[s].next % RingSize].pos = subs'[s].next
            /\ \A o \in SubIds \ {s} :
                   subs'[o] = subs[o] /\ frames'[o] = frames[o]]_vars

\* a subscriber got an Error frame for a lag and a message after it, while
\* another subscriber, active all along, received every message in turn
C18_Witness ==
    \E s \in SubIds : \E o \in SubIds \ {s} :
        /\ \E i \in DOMAIN frames[s] :
              /\ i < Len(frames[s])
              /\ frames[s][i].kind = "lagged"
              /\ frames[s][i + 1].kind = "msg"
        /\ subs[s].state = "active"
        /\ subs[o].state = "active"
        /\ Len(frames[o]) >= 2
        /\ \A i \in DOMAIN frames[o] : frames[o][i].kind = "msg"

\* ------------------------------------------------------ trace properties
\* C16: in the TraceDetail returned by get_trace_detail(T) every span has
\* trace_id = T and the spans are in non-decreasing start_time_unix_nano
\* order; every log has trace_id = T and the logs are in non-decreasing
\* timestamp order.
C16_TraceDetailSorted ==
    lastTrace.result = "Some" =>
        /\ \A i \in DOMAIN lastTrace.spans :
              lastTrace.spans[i].trace_id = lastTrace.trace_id
        /\ \A i, j \in DOMAIN lastTrace.spans :
              i < j => lastTrace.spans[i].start_time_unix_nano
                          <= lastTrace.spans[j].start_time_unix_nano
        /\ \A i \in DOMAIN lastTrace.logs :
              lastTrace.logs[i].trace_id = << lastTrace.trace_id >>
        /\ \A i, j \in DOMAIN lastTrace.logs :
              i < j => lastTrace.logs[i].timestamp <= lastTrace.logs[j].timestamp

\* a detail was returned whose spans and logs were both stored in the
\* opposite order, next to documents of another trace
C16_Witness ==
    /\ lastTrace.result = "Some"
    /\ Len(lastTrace.spans) = 2
    /\ lastTrace.spans[1].span_id > lastTrace.spans[2].span_id
    /\ lastTrace.spans[1].start_time_unix_nano < lastTrace.spans[2].start_time_unix_nano
    /\ Len(lastTrace.logs) = 2
    /\ lastTrace.logs[1].id > lastTrace.logs[2].id
    /\ lastTrace.logs[1].timestamp < lastTrace.logs[2].timestamp

\* the stored span documents that carry trace id tid
StoredSpans(tid) ==
    { i \in DOMAIN spans_collection : spans_collection[i].trace_id = << tid >> }

\* the stored log documents that carry trace id tid
StoredLogs(tid) ==
    { i \in DOMAIN logs_collection : logs_collection[i].trace_id = << tid >> }

\* C17: get_trace_detail(T) returns None if and only if no span with
\* trace_id T is stored: logs with trace_id T alone never make a trace, and a
\* trace whose spans all have a parent is still returned, with every stored
\* span and log of T.
C17_AbsentIffNoSpans ==
    [][(GetTraceDetail /\ lastTrace'.result # "Err") =>
        /\ (lastTrace'.result = "None" <=> StoredSpans(lastTrace'.trace_id) = {})
        /\ (lastTrace'.result = "Some" =>
               /\ Len(lastTrace'.spans) = Cardinality(StoredSpans(lastTrace'.trace_id))
               /\ Len(lastTrace'.logs) = Cardinality(StoredLogs(lastTrace'.trace_id)))]_vars

\* None was returned for a trace that has a stored log and no span, while the
\* other trace has spans, none of them a root span
C17_Witness ==
    /\ lastTrace.result = "None"
    /\ lastTrace.trace_id = "t2"
    /\ StoredLogs(lastTrace.trace_id) # {}
    /\ StoredSpans(lastTrace.trace_id) = {}
    /\ spans_collection # << >>

\* the framing the first byte of a stream calls for
FramingOf(first) == IF first \in Digits THEN "octet" ELSE "newline"

\* C19: the framing of a syslog TCP connection is decided once, from the
\* first byte of the connection: octet-counting if and only if that byte is
\* an ASCII digit, newline-delimited otherwise; the handler of the chosen
\* mode makes every process_message call of the connection, and a framing
\* once chosen never changes.
C19_FramingDecidedOnce ==
    /\ [](\A c \in SyslogConns :
            /\ conns[c].framing # "undecided" =>
                 /\ conns[c].sent # << >>
                 /\ conns[c].framing = FramingOf(conns[c].sent[1])
            /\ conns[c].pc \in {"octet_read", "octet_parse"} =>
                 conns[c].framing = "octet"
            /\ conns[c].pc \in {"newline_first", "newline_loop"} =>
                 conns[c].framing = "newline"
            /\ \A i \in DOMAIN processed :
                 processed[i].conn = c =>
                    processed[i].via = FramingOf(conns[c].sent[1]))
    /\ [][\A c \in SyslogConns :
            conns[c].framing # "undecided" =>
               conns'[c].framing = conns[c].framing]_vars

\* a connection that opened with a line and later sent an octet-counted
\* frame has been read to its end, every message of it by the newline handler
C19_Witness ==
    /\ conns[1].sent = WireLineThenOctet
    /\ conns[1].pc = "closed"
    /\ conns[1].wire = << >>
    /\ Cardinality({ i \in DOMAIN processed : processed[i].conn = 1 }) = 2
    /\ \A i \in DOMAIN processed : processed[i].conn = 1 => processed[i].via = "newline"
    /\ conns[2].framing = "octet"
    /\ \E i \in DOMAIN processed : processed[i].conn = 2 /\ processed[i].via = "octet"

\* the process_message calls made for connection c, as indices of `processed`
CallsOf(c) == { i \in DOMAIN processed : processed[i].conn = c }

\* C20: within one syslog TCP connection, messages are processed one at a
\* time in wire order: at most one process_message call of a connection is
\* unfinished, and it is for bytes behind those of every finished call; the
\* finished calls of a connection were given the bytes of its stream at
\* increasing places and recorded, broadcast and offered their entries in
\* that order; the batcher queue took the accepted records of a connection
\* in wire order; and a stream of well-formed frames read to its end had
\* each frame processed.
C20_WireOrder ==
    /\ \A c \in SyslogConns :
          /\ Len(conns[c].pending) <= 1
          /\ \A k \in DOMAIN conns[c].pending : \A i \in CallsOf(c) :
                processed[i].off + Len(processed[i].data) <= conns[c].pending[k].off
          /\ \A i, j \in CallsOf(c) : i < j =>
                /\ processed[i].off + Len(processed[i].data) <= processed[j].off
                /\ processed[i].parsed /\ processed[j].parsed =>
                      /\ processed[i].rec < processed[j].rec
                      /\ processed[i].msg < processed[j].msg
                      /\ processed[i].id < processed[j].id
          /\ \A i \in CallsOf(c) :
                processed[i].data =
                   SubSeq(conns[c].sent, processed[i].off + 1,
                          processed[i].off + Len(processed[i].data))
          /\ \A a, b \in DOMAIN accepted : \A i, j \in CallsOf(c) :
                a < b /\ processed[i].id = accepted[a] /\ processed[j].id = accepted[b]
                   => processed[i].off < processed[j].off
          /\ conns[c].pc = "closed" /\ conns[c].wire = << >> =>
                /\ conns[c].sent = WireOctet =>
                      { processed[i].off : i \in CallsOf(c) } = {2, 6}
                /\ conns[c].sent = WireNewline =>
                      { processed[i].off : i \in CallsOf(c) } = {0, 3}
    /\ \A a \in DOMAIN accepted : \E i \in DOMAIN processed :
          processed[i].parsed /\ processed[i].id = accepted[a]
                              /\ processed[i].res = "Ok"

\* both frames of an octet-counted stream were accepted by the queue, with a
\* message of the other connection processed between them
C20_Witness ==
    /\ conns[1].sent = WireOctet
    /\ conns[1].pc = "closed"
    /\ \E i, j, k \in DOMAIN processed :
          /\ i < j /\ j < k
          /\ processed[i].conn = 1 /\ processed[i].off = 2 /\ processed[i].res = "Ok"
          /\ processed[j].conn = 2 /\ processed[j].res = "Ok"
          /\ processed[k].conn = 1 /\ processed[k].off = 6 /\ processed[k].res = "Ok"
          /\ \E a, b \in DOMAIN accepted :
                a < b /\ accepted[a] = processed[i].id /\ accepted[b] = processed[k].id

\* C21: for every secret and every payload, validate(sign(payload) ++
\* payload) returns Ok(payload); a packet of at least 32 bytes whose first 32
\* bytes are not the HMAC of the remaining bytes under the secret (for
\* instance after changing one payload byte) returns InvalidSignature; a
\* packet shorter than 32 bytes returns PacketTooShort.
C21_ValidateSign ==
    /\ \A k \in Secrets : \A p \in Payloads :
          /\ Validate(k, Sign(k, p) \o p) = [ok |-> TRUE, err |-> "", payload |-> p]
          /\ Len(Sign(k, p)) = 32
    /\ \A i \in DOMAIN served :
          LET packet == served[i].packet
              v == Validate(secret, packet)
          IN served[i].res # "RecvError" =>
               /\ Len(packet) < 32 => ~v.ok /\ v.err = "PacketTooShort"
               /\ Len(packet) >= 32
                   /\ SubSeq(packet, 1, 32) # Hmac(secret, SubSeq(packet, 33, Len(packet)))
                     => ~v.ok /\ v.err = "InvalidSignature"
               /\ (\E p \in Payloads : packet = Sign(secret, p) \o p) =>
                     /\ v.ok
                     /\ v.payload = SubSeq(packet, 33, Len(packet))
                     /\ served[i].res \in {"Ok", "EmptyPayload", "InvalidJson"}
               /\ ~v.ok => served[i].res = v.err

\* the server has served a packet whose payload byte or whose last signature
\* byte was changed after signing (InvalidSignature), and was then sent a
\* correctly signed packet, whose payload it got back
C21_Witness ==
    /\ Len(served) = 2
    /\ served[1].res = "InvalidSignature"
    /\ served[1].packet \in { Tamper(Sign(secret, << 1 >>) \o << 1 >>, k) : k \in {32, 33} }
    /\ served[2].res = "Ok"
    /\ served[2].packet = Sign(secret, << 2 >>) \o << 2 >>
    /\ served[2].payload = << 2 >>

\* a step of the server loop that served a datagram which was not accepted
Rejected ==
    /\ Len(served') = Len(served) + 1
    /\ served'[Len(served')].res # "Ok"

\* C22: a datagram that fails HMAC validation (or whose payload fails to
\* parse) causes no state change: no metrics counter is incremented, nothing
\* is broadcast and nothing is persisted (no task is spawned either), and the
\* UDP server goes on to serve the next datagram.
C22_RejectedNoEffect ==
    /\ [][Rejected => UNCHANGED << metVars, bcVars, udp_store, tasks, secret >>]_vars
    /\ [](Len(served) < MaxDatagrams => ENABLED UdpRecv)
    /\ [](/\ Len(recorded) <= Len(tasks)
          /\ published <= Len(tasks)
          /\ Len(udp_store) <= Len(tasks)
          /\ \A t \in DOMAIN tasks : served[tasks[t].dg].res = "Ok"
          /\ \A i \in DOMAIN udp_store : served[udp_store[i]].res = "Ok")

\* a datagram with a bad signature was served, and the datagram served after
\* it was recorded, broadcast and stored
C22_Witness ==
    /\ Len(served) = 2
    /\ served[1].res = "InvalidSignature"
    /\ served[2].res = "Ok"
    /\ udp_store = << 2 >>
    /\ total_logs = 1
    /\ published = 1

\* the process_message calls whose data parsed: the records the syslog
\* adapter accepted
ParsedCalls == { i \in DOMAIN processed : processed[i].parsed }

SpanStep == Len(span_calls') = Len(span_calls) + 1

\* C24: spans never count toward the log metrics: for any span (including one
\* with status Error), the snapshot get_metrics would return just before
\* record_span and the one it would return just after have identical
\* logs_per_second, errors_per_second, error_rate, logs_last_minute,
\* errors_last_minute and per-level counts; record_span leaves the window and
\* the count of logs alone.
C24_SpansNotInLogMetrics ==
    [][SpanStep =>
         LET before == Metrics(buckets, clock)
             after == Metrics(buckets', clock')
         IN /\ after.logs_per_second = before.logs_per_second
            /\ after.errors_per_second = before.errors_per_second
            /\ after.error_rate = before.error_rate
            /\ after.logs_last_minute = before.logs_last_minute
            /\ after.errors_last_minute = before.errors_last_minute
            /\ after.logs_by_level = before.logs_by_level
            /\ buckets' = buckets
            /\ total_logs' = total_logs]_vars

\* a snapshot taken after an INFO log was recorded and then two spans of
\* status Error: one log in the last minute and no error
C24_Witness ==
    /\ span_calls = << "Error", "Error" >>
    /\ Len(recorded) = 1
    /\ recorded[1].level = "INFO"
    /\ snapshot.valid
    /\ snapshot.logs_last_minute = 1
    /\ snapshot.errors_last_minute = 0
    /\ snapshot.error_rate = Frac(0, 1)
    /\ total_errors = 2

\* a step that is a check_alerts call whose get_alerts failed
LoadFailed == lastCheck' # lastCheck /\ lastCheck'.result = "err"

\* C25: if loading the rules from the store fails, check_alerts returns an
\* error without evaluating any rule, dispatching any notification or
\* changing any cooldown entry; the checker task stays alive, and the next
\* call is a full evaluation: every rule that is due fires in it.
C25_LoadFailureNoEffect ==
    /\ [][LoadFailed =>
            /\ UNCHANGED << cooldown_secs, rules, last_triggers, dispatched, checker >>
            /\ lastCheck'.triggered = << >>]_vars
    /\ [](lastCheck.result = "err" => checker = "idle" /\ ENABLED CheckAlerts)
    /\ [][lastCheck.result = "err" /\ Evaluated =>
            \A r \in RuleIds :
               Cardinality(NewlyDispatched(r)) = (IF DueAt(r) THEN 1 ELSE 0)]_vars

\* the load failed at an evaluation 45 s after rule 1 fired: its notification
\* and its cooldown entry are as the firing left them
C25_Witness ==
    /\ lastCheck.result = "err"
    /\ lastCheck.now = 45
    /\ 1 \in DOMAIN last_triggers
    /\ last_triggers[1] = 0
    /\ \E k \in DOMAIN dispatched : dispatched[k].rule = 1 /\ dispatched[k].timestamp = 0
    /\ Cardinality(DispatchedFor(1)) = 1

\* C26: the cooldown decision uses only the in-memory last-trigger map of the
\* running process and never the persisted last_triggered: an evaluation
\* fires exactly the enabled rules whose condition holds and whose cached
\* trigger, if any, is at least cooldown_secs old, so after a restart (empty
\* map) a rule whose condition holds fires at the first evaluation even when
\* its persisted last_triggered is less than one cooldown old.
C26_CooldownInMemoryOnly ==
    /\ [][Evaluated =>
            \A r \in RuleIds :
               /\ Cardinality(NewlyDispatched(r)) = (IF DueAt(r) THEN 1 ELSE 0)
               /\ (last_triggers = << >> /\ rules[r].enabled
                     /\ ShouldTrigger(rules[r].condition, lastCheck'.metrics))
                    => NewlyDispatched(r) # {}]_vars
    /\ [](\A r \in DOMAIN last_triggers : \E k \in DOMAIN dispatched :
             dispatched[k].rule = r /\ dispatched[k].timestamp = last_triggers[r])

\* the first evaluation of the restarted process, 10 s after the persisted
\* trigger of rule 1, fired rule 1
C26_Witness ==
    /\ lastCheck.result = "ok"
    /\ lastCheck.now = 0
    /\ lastCheck.now - PersistedLastTriggered < cooldown_secs
    /\ lastCheck.triggered # << >>
    /\ lastCheck.triggered[1] = 1
    /\ dispatched[1] = [rule |-> 1, timestamp |-> 0, delivered |-> TRUE]
    /\ rules[1].trigger_count = 2

\* the enabled rules whose condition holds on snapshot m and that are not in
\* cooldown at the current second
DueOn(m) ==
    { r \in RuleIds : /\ rules[r].enabled
                      /\ ShouldTrigger(rules[r].condition, m)
                      /\ ~InCooldown(last_triggers, r, clock) }

\* C27: notification dispatch is fire-and-forget: an action whose delivery
\* never completes (a webhook that never answers) does not prevent the other
\* rules of the same cycle, or any later evaluation tick, from being evaluated
\* and fired: when a notification is handed to an action, every rule that is
\* due on some snapshot in that cycle gets its notification in the same step,
\* and a further evaluation can always be run.
C27_FireAndForget ==
    /\ [](ENABLED CheckAlerts)
    /\ [][Len(dispatched') > Len(dispatched) =>
            \E bs \in TrackerInputs :
               \A r \in DueOn(Metrics(bs, clock)) : NewlyDispatched(r) # {}]_vars

\* the decimal text of a natural number
RECURSIVE Decimal(_)
Decimal(n) ==
    LET d == CHOOSE c \in Digits : DigitValue(c) = n % 10
    IN IF n < 10 THEN << d >> ELSE Append(Decimal(n \div 10), d)

\* C30: for every PRI value p in 0..192 (192 excluded), parse_syslog decodes
\* facility = p div 8 and severity = p mod 8, so that facility*8 + severity =
\* p round-trips; PRI values whose facility code exceeds 23, and PRI text
\* that is not a number in 0..255, are rejected with an error rather than
\* mis-decoded.
C30_PriRoundTrip ==
    (call.fn = "parse_syslog" /\ call.done) =>
       LET text == call.input
           digits == IF text # << >> /\ Head(text) = "+" THEN Tail(text) ELSE text
           number == digits # << >> /\ \A i \in DOMAIN digits : digits[i] \in Digits
           p == IF number THEN ParseUsize(digits) ELSE 0
           r == call.output
       IN /\ (number /\ text = Decimal(p) /\ p < 192) =>
                /\ r.ok
                /\ r.facility = p \div 8
                /\ r.severity = p % 8
                /\ r.facility * 8 + r.severity = p
          /\ (number /\ p >= 192) => ~r.ok
          /\ (number /\ p \in 192..255) => r.err = "Invalid facility code"
          /\ ~number => ~r.ok /\ r.err = "Invalid syslog PRI value"
          /\ r.ok => /\ number
                     /\ r.facility \in 0..23
                     /\ r.severity \in 0..7
                     /\ r.facility * 8 + r.severity = p

\* PRI 134 was decoded as facility 16 (local0), severity 6 (info)
C30_Witness ==
    /\ call.fn = "parse_syslog"
    /\ call.done
    /\ call.input = << "1", "3", "4" >>
    /\ call.output.ok
    /\ call.output.facility = 16
    /\ call.output.severity = 6

\* s is a string of exactly n hex digits
IsHex(s, n) == Len(s) = n /\ \A i \in DOMAIN s : s[i] \in HexDigits

\* C28: every LogRecord emitted by an adapter has trace_id either absent or a
\* hex string of length 32, and span_id either absent or a hex string of
\* length 16: a wire trace_id that is not valid hex of that length is never
\* accepted into a record.
C28_TraceIdHex ==
    (call.fn = "into_log_entry" /\ call.done /\ call.output.ok) =>
       /\ call.output.trace_id = << >> \/ IsHex(call.output.trace_id[1], 32)
       /\ call.output.span_id = << >> \/ IsHex(call.output.span_id[1], 16)

\* C29: for every span converted from OTLP, duration_ms equals
\* (end_time_unix_nano - start_time_unix_nano)/1e6 and is >= 0 and end_time >=
\* start_time; for an input whose end_time_unix_nano is smaller than its
\* start_time_unix_nano the u64 subtraction does not underflow: no panic and
\* no wrapped, huge duration.
C29_DurationNoUnderflow ==
    (call.fn = "convert_span" /\ call.done) =>
       LET in == call.input
           out == call.output
       IN /\ out.ok
          /\ out.duration_ms.wraps = 0
          /\ out.duration_ms.num = in.end_time_unix_nano - in.start_time_unix_nano
          /\ out.duration_ms.den = NanosPerMilli
          /\ out.duration_ms.num >= 0
          /\ \/ out.end_time.secs > out.start_time.secs
             \/ /\ out.end_time.secs = out.start_time.secs
                /\ out.end_time.nsecs >= out.start_time.nsecs

\* C31: GELF level integers 0-7 are mapped to the same LogLevel as the syslog
\* severity with the same code: 0 and 1 -> Fatal, 2 and 3 -> Error, 4 -> Warn,
\* 5 and 6 -> Info, 7 -> Debug.
C31_GelfLevelAsSyslog ==
    (call.fn = "to_log_level" /\ call.done /\ SeverityFromCode(call.input).some) =>
       /\ call.output.level
            = SeverityToLogLevel(SeverityFromCode(call.input).severity)
       /\ call.output.level
            = CASE call.input \in {0, 1} -> "FATAL"
                [] call.input \in {2, 3} -> "ERROR"
                [] call.input = 4 -> "WARN"
                [] call.input \in {5, 6} -> "INFO"
                [] call.input = 7 -> "DEBUG"

\* the live receive handles of the broadcaster
LiveReceivers == { s \in SubIds : subs[s].state = "active" }

\* C32: subscriber_count() returns the number of currently active subscribers
\* (live receive handles) of the broadcaster after any sequence of subscribe,
\* receiver-drop, publish and recv operations; it does not depend on how many
\* messages are queued.
C32_SubscriberCountIsReceivers == SubscriberCount = Cardinality(LiveReceivers)

\* every record_log_by_level call that was begun has finished
AllRecorded == \A t \in RecorderIds : recorders[t].pc = "idle"

\* every call read a second of one and the same window
OneWindow ==
    \A i, j \in DOMAIN recorded :
       recorded[j].sec - recorded[i].sec <= METRICS_WINDOW_SECS

RECURSIVE SumAll(_)
SumAll(bs) ==
    IF bs = << >> THEN [total |-> 0, by |-> NoLevels]
    ELSE LET rest == SumAll(Tail(bs))
         IN [total |-> Head(bs).total + rest.total,
             by |-> [l \in Levels |-> Head(bs).by[l] + rest.by[l]]]

\* C33: concurrent record calls lose no update: after K record_log_by_level
\* calls issued by any number of concurrent tasks have all completed within
\* one window, the bucket totals sum to K, the per-level sums equal the
\* number of calls of each level, and total_logs() = K.
C33_NoLostUpdate ==
    (AllRecorded /\ OneWindow) =>
       /\ SumAll(buckets).total = Len(recorded)
       /\ \A l \in Levels :
            SumAll(buckets).by[l]
              = Cardinality({ i \in DOMAIN recorded : recorded[i].level = l })
       /\ total_logs = Len(recorded)

\* two tasks read different seconds and took the lock in the other order,
\* and a third call followed
C33_Witness ==
    /\ AllRecorded /\ OneWindow
    /\ Len(recorded) = MaxRecords
    /\ Len(buckets) >= 2
    /\ buckets[1].timestamp > buckets[2].timestamp
    /\ { recorded[i].level : i \in DOMAIN recorded } = RecordLevels

\* task t leaves record_log_by_level in this step
RecordReturns(t) == recorders[t].pc = "lock" /\ recorders'[t].pc = "idle"

\* C34: the bucket deque is bounded: after every record call no bucket older
\* than now - 60 s remains, bucket timestamps are non-decreasing from front to
\* back with at most one bucket per second, and a snapshot therefore iterates
\* at most 60 buckets - also when record calls of concurrent tasks, each
\* having read the clock before taking the lock, interleave.
C34_DequeBoundedAndOrdered ==
    [][\A t \in RecorderIds :
         RecordReturns(t) =>
            /\ \A i \in DOMAIN buckets' :
                 buckets'[i].timestamp >= recorders[t].now - METRICS_WINDOW_SECS
            /\ \A i, j \in DOMAIN buckets' :
                 i < j => buckets'[i].timestamp < buckets'[j].timestamp]_vars

\* C39: the two lifetime counters are monotonic and consistent: total_logs()
\* equals the number of log records ever recorded, total_errors() equals the
\* number of those whose level is Error or Fatal, and therefore
\* total_errors() <= total_logs() in every reachable state, whatever logs and
\* spans have been recorded.
C39_LifetimeCounters ==
    /\ total_logs = Len(recorded)
    /\ total_errors
         = Cardinality({ i \in DOMAIN recorded : recorded[i].level \in {"ERROR", "FATAL"} })
    /\ total_errors <= total_logs

\* the index of the first space of data, 0 when there is none
FirstSpace(data) ==
    IF \E i \in DOMAIN data : data[i] = " "
       THEN CHOOSE i \in DOMAIN data : data[i] = " " /\ \A j \in 1..(i - 1) : data[j] # " "
       ELSE 0

\* C36: parse_octet_counted returns Ok((space+1+len, data[space+1 ..
\* space+1+len])) when the buffer holds the whole frame and an error
\* otherwise, for every declared length: computing msg_start + msg_len never
\* overflows usize and never causes an out-of-range slice, whatever decimal
\* length the peer sends.
C36_OctetCountedTotal ==
    (call.fn = "parse_octet_counted" /\ call.done) =>
       LET out == call.output
           data == call.input
       IN /\ out.err # "panic"
          /\ out.ok =>
               /\ FirstSpace(data) > 0
               /\ out.end_pos <= Len(data)
               /\ out.msg = SubSeq(data, FirstSpace(data) + 1, out.end_pos)
               /\ ParseUsizeWide(SubSeq(data, 1, FirstSpace(data) - 1)).value
                    = [wraps |-> 0, off |-> out.end_pos - FirstSpace(data)]

\* the handler of connection c read its stream to the end and returned, and
\* no process_message call is left unfinished
StreamDone(c) ==
    conns[c].pc = "closed" /\ conns[c].wire = << >> /\ conns[c].pending = << >>

\* C37: in octet-counting mode the sequence of messages extracted from a
\* connection depends only on the byte stream and not on how the stream is
\* split into reads: for every way of chunking a concatenation of well-formed
\* frames (including a split inside the length prefix or inside a payload),
\* exactly those frames' payloads are processed, once each, in order, and the
\* buffer is empty at the end.
C37_ChunkingIndependent ==
    \A fs \in FrameLists :
       (conns[1].sent = StreamOf(fs) /\ StreamDone(1)) =>
          /\ [i \in DOMAIN processed |-> processed[i].data]
               = [i \in DOMAIN fs |-> fs[i].msg]
          /\ \A i \in DOMAIN processed : processed[i].conn = 1
          /\ conns[1].buffer = << >>

\* the stream whose first length prefix has two digits was read to its end
C37_Witness ==
    /\ conns[1].sent = StreamOf(FramesLong)
    /\ StreamDone(1)
    /\ Len(processed) = 2
    /\ processed[1].parsed /\ processed[1].data = LongMsg
    /\ processed[2].parsed /\ processed[2].off = 15

\* C35: on an octet-counted syslog TCP connection a malformed frame (for
\* example a length prefix that is not a decimal number) costs only that
\* record: it is dropped, the connection handler does not panic, and every
\* well-formed frame that follows on the same connection is still processed.
C35_MalformedFrameCostsOneRecord ==
    (conns[1].sent = WireBadLength /\ StreamDone(1)) =>
       /\ \E i \in DOMAIN processed : processed[i].off = 2
       /\ \E i \in DOMAIN processed :
            processed[i].off = 11 /\ processed[i].data = << "<", "i" >>

\* where the records are that the channel has accepted: still queued, in the
\* processor's buffer, or handed to insert_logs
InPipeline == queue \o batch \o Handed

\* C38: all clones of a LogBatcher share one queue and one consumer: under any
\* interleaving of try_add calls made through different clones the number of
\* queued records never exceeds channel_buffer_size, every accepted record is
\* drained by the single batch processor, and the processor does not
\* terminate while at least one clone is still alive.
C38_ClonesShareQueue ==
    /\ Len(queue) <= channel_buffer_size
    /\ Range(InPipeline) = Range(accepted)
    /\ NoDup(InPipeline)
    /\ Increasing(batch \o queue)
    /\ handles > 0 => pc = "running"

\* two handles are alive, the queue is full and the last try_add was turned
\* away, while the processor has already handed records to insert_logs
C38_Witness ==
    /\ handles = 2
    /\ Len(queue) = channel_buffer_size
    /\ lastAdd = [op |-> "try_add", id |-> calls, res |-> "Full"]
    /\ Len(accepted) >= 3
    /\ Handed # << >>
    /\ pc = "running"

\* C40: a rule with enabled = false is never evaluated: whatever the metrics,
\* it dispatches no notification, gets no cooldown entry, and its
\* last_triggered and trigger_count stay unchanged.
C40_DisabledRuleUntouched ==
    \A r \in RuleIds :
       ~rules[r].enabled =>
          /\ \A i \in DOMAIN dispatched : dispatched[i].rule # r
          /\ r \notin DOMAIN last_triggers
          /\ rules[r].last_triggered = << >>
          /\ rules[r].trigger_count = 0

\* an evaluation fired rule 1 on metrics under which the condition of the
\* disabled rule 2 holds as well
C40_Witness ==
    /\ ~rules[2].enabled
    /\ lastCheck.result = "ok"
    /\ ShouldTrigger(rules[2].condition, lastCheck.metrics)
    /\ lastCheck.triggered = << 1 >>
    /\ 1 \in DOMAIN last_triggers
====
